---------------------------- MODULE Spec2Model ----------------------------
(***************************************************************************)
(* A model of window_positioner_v3.py: the WindowPositioner class (window  *)
(* classification, ordering by process creation time, grid layout, zoom,   *)
(* resize and navigation batches) over an abstract desktop of top-level    *)
(* windows.                                                                *)
(*                                                                         *)
(* Text (window titles, class names) is a sequence of one-character        *)
(* strings, so that lower-casing, substring search and the regular         *)
(* expression are computed character by character as Python computes them. *)
(***************************************************************************)
EXTENDS Integers, Sequences, FiniteSets, TLC

VARIABLES
    wins,      \* the desktop: HWND -> window record (attributes the OS reports)
    zorder,    \* the order in which EnumWindows reports the handles
    settings,  \* WindowPositioner.settings
    inv,       \* the running invocation of a WindowPositioner method
    events,    \* OS calls issued (and thread switches), in order
    ret,       \* return value of the last finished invocation
    monitor,   \* what GetSystemMetrics / SystemParametersInfoW report
    verdict,   \* last direct is_profile_window call: <<hwnd, result>>
    listing,   \* the direct get_profile_windows calls: enumeration order, result
    app,       \* the App object: its Tk variables, status line, tray icon
    flaky,     \* the calls that can raise an exception on this desktop
    waiting    \* the invocation of the thread that waits while `inv` runs

vars == <<wins, zorder, settings, inv, events, ret, monitor, verdict, listing,
          app, flaky, waiting>>

-----------------------------------------------------------------------------
(* Bounds of the model *)

MaxFrags == 2         \* a probe title is at most this many fragments
MaxWindows == 3       \* windows on the desktop when the ProfileSet is ordered
BatchWindows == 2     \* windows on the desktop when a batch runs
MaxZoomPercent == 110 \* zoom requests are 0..MaxZoomPercent
MaxTime == 2          \* process creation times are 1..MaxTime
MaxCols == 8          \* the column-growing loop is followed up to this width
GridWindows == 5      \* windows on the desktop when the grid is planned

-----------------------------------------------------------------------------
(* Characters and text *)

UpperLetters == <<"A","B","C","D","E","F","G","H","I","J","K","L","M",
                  "N","O","P","Q","R","S","T","U","V","W","X","Y","Z">>
LowerLetters == <<"a","b","c","d","e","f","g","h","i","j","k","l","m",
                  "n","o","p","q","r","s","t","u","v","w","x","y","z">>
Digits == {"0","1","2","3","4","5","6","7","8","9"}

Range(s) == {s[i] : i \in DOMAIN s}

IsUpper(c) == c \in Range(UpperLetters)
IsDigit(c) == c \in Digits
\* the characters \b treats as part of a word: [A-Za-z0-9_]
IsWordChar(c) == c \in Range(UpperLetters) \cup Range(LowerLetters) \cup Digits \cup {"_"}

\* str.lower() on one character
LowerChar(c) ==
    IF IsUpper(c)
    THEN LowerLetters[CHOOSE i \in DOMAIN UpperLetters : UpperLetters[i] = c]
    ELSE c

\* str.lower()
lower(s) == [i \in DOMAIN s |-> LowerChar(s[i])]

\* Python's `sub in s`
Contains(sub, s) ==
    \E i \in 0..(Len(s) - Len(sub)) : SubSeq(s, i + 1, i + Len(sub)) = sub

\* str.startswith
startswith(s, prefix) ==
    Len(prefix) <= Len(s) /\ SubSeq(s, 1, Len(prefix)) = prefix

\* \b at the gap before position i of s (1 <= i <= Len(s) + 1): exactly one
\* of the two neighbouring positions holds a word character
WordBoundary(s, i) ==
    LET before == i > 1 /\ IsWordChar(s[i - 1])
        after  == i <= Len(s) /\ IsWordChar(s[i])
    IN  before # after

\* re.search(r'\b[A-Z]{2}\d+\b', s): two upper-case letters at i, i+1,
\* digits at i+2..j, word boundaries before i and after j
SearchProfilePattern(s) ==
    \E i \in 1..Len(s) : \E j \in (i + 2)..Len(s) :
        /\ WordBoundary(s, i)
        /\ IsUpper(s[i]) /\ IsUpper(s[i + 1])
        /\ \A k \in (i + 2)..j : IsDigit(s[k])
        /\ WordBoundary(s, j + 1)

-----------------------------------------------------------------------------
(* Module-level constants of the program *)

SW_RESTORE == 9

PROFILE_INDICATORS ==
    << <<"w","h","o","e","r","i","p">>,
       <<"w","h","o","e","r">>,
       <<"m","i","m","i","c">> >>

EXCLUDE_INDICATORS ==
    << <<"m","u","l","t","i","l","o","g","i","n"," ","x"," ","a","p","p">>,
       <<"m","u","l","t","i","l","o","g","i","n"," ","a","p","p">> >>

chrome_widgetwin ==
    <<"c","h","r","o","m","e","_","w","i","d","g","e","t","w","i","n">>

-----------------------------------------------------------------------------
(* The desktop: what the Win32 calls report for a handle *)

\* A handle whose window has been closed is stale: wins[hwnd].alive = FALSE.
IsWindow(hwnd) == hwnd \in DOMAIN wins /\ wins[hwnd].alive

IsWindowVisible(hwnd) == IsWindow(hwnd) /\ wins[hwnd].visible

GetWindowTextLengthW(hwnd) == IF IsWindow(hwnd) THEN Len(wins[hwnd].title) ELSE 0

GetWindowTextW(hwnd) == IF IsWindow(hwnd) THEN wins[hwnd].title ELSE <<>>

GetClassName(hwnd) == IF IsWindow(hwnd) THEN wins[hwnd].cls ELSE <<>>

\* OpenProcess(PROCESS_QUERY_LIMITED_INFORMATION) on the window's process
OpenProcess(hwnd) == IsWindow(hwnd) /\ wins[hwnd].proc # "no_open"

\* GetProcessTimes on an opened process handle
GetProcessTimes(hwnd) == wins[hwnd].proc = "ok"

-----------------------------------------------------------------------------
(* WindowPositioner: reading and classifying windows *)

get_window_title(hwnd) ==
    IF GetWindowTextLengthW(hwnd) = 0 THEN <<>> ELSE GetWindowTextW(hwnd)

get_window_class(hwnd) == GetClassName(hwnd)

\* Mutation of get_process_creation_time: a failed OpenProcess or
\* GetProcessTimes yields a value above every creation time instead of 0
get_process_creation_time_FailureLast(hwnd) ==
    IF ~OpenProcess(hwnd) THEN MaxTime + 1
    ELSE IF GetProcessTimes(hwnd) THEN wins[hwnd].ctime
    ELSE MaxTime + 1

get_process_creation_time(hwnd) ==
    IF ~OpenProcess(hwnd) THEN 0
    ELSE IF GetProcessTimes(hwnd) THEN wins[hwnd].ctime
    ELSE 0

\* Mutations of is_profile_window (each a plausible slip in lines 152-170)

\* the inclusion keywords are tried before the exclusion list
is_profile_window_InclusionFirst(hwnd) ==
    LET title       == get_window_title(hwnd)
        title_lower == lower(title)
        class_name  == lower(get_window_class(hwnd))
    IN  IF ~IsWindowVisible(hwnd) THEN FALSE
        ELSE IF title = <<>> THEN FALSE
        ELSE IF \E k \in DOMAIN PROFILE_INDICATORS :
                    Contains(PROFILE_INDICATORS[k], title_lower) THEN TRUE
        ELSE IF \E k \in DOMAIN EXCLUDE_INDICATORS :
                    Contains(EXCLUDE_INDICATORS[k], title_lower) THEN FALSE
        ELSE IF SearchProfilePattern(title)
                    /\ Contains(chrome_widgetwin, class_name) THEN TRUE
        ELSE FALSE

\* the class name is not lower-cased before the substring test
is_profile_window_ClassCaseSensitive(hwnd) ==
    LET title       == get_window_title(hwnd)
        title_lower == lower(title)
        class_name  == get_window_class(hwnd)
    IN  IF ~IsWindowVisible(hwnd) THEN FALSE
        ELSE IF title = <<>> THEN FALSE
        ELSE IF \E k \in DOMAIN EXCLUDE_INDICATORS :
                    Contains(EXCLUDE_INDICATORS[k], title_lower) THEN FALSE
        ELSE IF \E k \in DOMAIN PROFILE_INDICATORS :
                    Contains(PROFILE_INDICATORS[k], title_lower) THEN TRUE
        ELSE IF SearchProfilePattern(title)
                    /\ Contains(chrome_widgetwin, class_name) THEN TRUE
        ELSE FALSE

\* the inclusion keywords are searched in the title as is, not lower-cased
is_profile_window_KeywordCaseSensitive(hwnd) ==
    LET title       == get_window_title(hwnd)
        title_lower == lower(title)
        class_name  == lower(get_window_class(hwnd))
    IN  IF ~IsWindowVisible(hwnd) THEN FALSE
        ELSE IF title = <<>> THEN FALSE
        ELSE IF \E k \in DOMAIN EXCLUDE_INDICATORS :
                    Contains(EXCLUDE_INDICATORS[k], title_lower) THEN FALSE
        ELSE IF \E k \in DOMAIN PROFILE_INDICATORS :
                    Contains(PROFILE_INDICATORS[k], title) THEN TRUE
        ELSE IF SearchProfilePattern(title)
                    /\ Contains(chrome_widgetwin, class_name) THEN TRUE
        ELSE FALSE

\* the empty-title test returns True instead of False
is_profile_window_EmptyAccepted(hwnd) ==
    LET title       == get_window_title(hwnd)
        title_lower == lower(title)
        class_name  == lower(get_window_class(hwnd))
    IN  IF ~IsWindowVisible(hwnd) THEN FALSE
        ELSE IF title = <<>> THEN TRUE
        ELSE IF \E k \in DOMAIN EXCLUDE_INDICATORS :
                    Contains(EXCLUDE_INDICATORS[k], title_lower) THEN FALSE
        ELSE IF \E k \in DOMAIN PROFILE_INDICATORS :
                    Contains(PROFILE_INDICATORS[k], title_lower) THEN TRUE
        ELSE IF SearchProfilePattern(title)
                    /\ Contains(chrome_widgetwin, class_name) THEN TRUE
        ELSE FALSE

is_profile_window(hwnd) ==
    LET title       == get_window_title(hwnd)
        title_lower == lower(title)
        class_name  == lower(get_window_class(hwnd))
    IN  IF ~IsWindowVisible(hwnd) THEN FALSE
        ELSE IF title = <<>> THEN FALSE
        ELSE IF \E k \in DOMAIN EXCLUDE_INDICATORS :
                    Contains(EXCLUDE_INDICATORS[k], title_lower) THEN FALSE
        ELSE IF \E k \in DOMAIN PROFILE_INDICATORS :
                    Contains(PROFILE_INDICATORS[k], title_lower) THEN TRUE
        ELSE IF SearchProfilePattern(title)
                    /\ Contains(chrome_widgetwin, class_name) THEN TRUE
        ELSE FALSE

\* list.sort(key=lambda x: x[2]) is stable: an element goes after every
\* element whose key is not greater
InsertByKey(sorted, e) ==
    LET k == Cardinality({i \in DOMAIN sorted : sorted[i][3] <= e[3]})
    IN  SubSeq(sorted, 1, k) \o <<e>> \o SubSeq(sorted, k + 1, Len(sorted))

RECURSIVE SortByKey(_)
SortByKey(s) ==
    IF s = <<>> THEN <<>>
    ELSE InsertByKey(SortByKey(SubSeq(s, 1, Len(s) - 1)), s[Len(s)])

\* Mutation of the EnumWindows callback: every window is taken, the
\* classifier is not asked
RECURSIVE EnumCallback_AcceptAll(_)
EnumCallback_AcceptAll(hwnds) ==
    IF hwnds = <<>> THEN <<>>
    ELSE LET hwnd == hwnds[Len(hwnds)]
             rest == EnumCallback_AcceptAll(SubSeq(hwnds, 1, Len(hwnds) - 1))
         IN  Append(rest, <<hwnd, get_window_title(hwnd),
                            get_process_creation_time(hwnd)>>)

\* the callback of EnumWindows, applied to the handles in enumeration order
RECURSIVE EnumCallback(_)
EnumCallback(hwnds) ==
    IF hwnds = <<>> THEN <<>>
    ELSE LET hwnd == hwnds[Len(hwnds)]
             rest == EnumCallback(SubSeq(hwnds, 1, Len(hwnds) - 1))
         IN  IF is_profile_window(hwnd)
             THEN Append(rest, <<hwnd, get_window_title(hwnd),
                                 get_process_creation_time(hwnd)>>)
             ELSE rest

get_profile_windows ==
    LET windows == SortByKey(EnumCallback(zorder))
    IN  [i \in DOMAIN windows |-> <<windows[i][1], windows[i][2]>>]

-----------------------------------------------------------------------------
(* State shared by every specification *)

DEFAULT_SETTINGS ==
    [grid_cols |-> 0, grid_rows |-> 0, h_gap |-> 10, v_gap |-> 10,
     zoom_level |-> 35, window_width |-> 550, window_height |-> 600]

\* An invocation of a WindowPositioner method: the method, where it stands
\* (pc), its ProfileSet (windows), the window it is at (i) and its locals;
\* the thread that runs it and what triggered it; the windows (method, index)
\* at which an except clause caught an exception
NoInvocation ==
    [op |-> "none", pc |-> "idle", run |-> 0, windows |-> <<>>, i |-> 0,
     cols |-> 0, rows |-> 0, win_w |-> 0, win_h |-> 0, h_gap |-> 0, v_gap |-> 0,
     steps |-> 0, k |-> 0, width |-> 0, height |-> 0,
     url_arg |-> <<>>, url |-> <<>>, apply_zoom_after |-> FALSE,
     zoom_percent |-> 0, via |-> "none", outer |-> 0,
     thread |-> "caller", trigger |-> "call", failed |-> {}, reads |-> <<>>]

\* no method is running: none was called, or the last one returned or raised
Idle == inv.pc \in {"idle", "done", "raised"}

\* A behaviour follows one invocation of one method: every method builds its
\* ProfileSet afresh and keeps nothing from one call to the next
NotYetCalled == inv.run = 0

NoReturn == [kind |-> "none", value |-> 0]
Return(n) == [kind |-> "return", value |-> n]
Raise == [kind |-> "raise", value |-> 0]

\* a 1920x1080 primary screen with a 40 pixel taskbar
DefaultMonitor ==
    [screen_w |-> 1920, screen_h |-> 1080, rect_w |-> 1920, rect_h |-> 1040]

\* a 1024x768 primary screen beside a second monitor: the work area
\* SystemParametersInfoW reports is cut to the primary screen
SmallMonitor ==
    [screen_w |-> 1024, screen_h |-> 768, rect_w |-> 1024, rect_h |-> 728]

\* a window as the desktop holds it
Window(visible, title, cls, proc, ctime, x, y) ==
    [alive |-> TRUE, visible |-> visible, iconic |-> FALSE,
     title |-> title, cls |-> cls, proc |-> proc, ctime |-> ctime,
     x |-> x, y |-> y, w |-> 1024, h |-> 768]

\* The App object before create_window: a WindowPositioner used on its own
NoApp ==
    [built |-> FALSE,
     cols_var |-> <<>>, rows_var |-> <<>>, hgap_var |-> <<>>, vgap_var |-> <<>>,
     width_var |-> <<>>, height_var |-> <<>>,
     zoom_var |-> 0, url_var |-> <<>>, auto_zoom_var |-> FALSE,
     status_var |-> "", tray_icon |-> FALSE, after |-> <<>>,
     settings_file |-> DEFAULT_SETTINGS]

\* a WindowPositioner called directly, on a desktop where no call raises
Standalone ==
    /\ app = NoApp
    /\ flaky = {}

\* no second thread: nothing waits for the processor
NoWaiting == [inv |-> NoInvocation, ret |-> NoReturn]

\* no method of the WindowPositioner was called yet
NothingCalled ==
    /\ inv = NoInvocation
    /\ waiting = NoWaiting
    /\ events = <<>>
    /\ ret = NoReturn
    /\ verdict = <<>>
    /\ listing = <<>>

\* WindowPositioner(settings) constructed from the default settings
Constructed ==
    /\ settings = DEFAULT_SETTINGS
    /\ monitor = DefaultMonitor
    /\ NothingCalled
    /\ Standalone

-----------------------------------------------------------------------------
(* Classification of one window: titles built from fragments *)

Fragments ==
    { <<"M","u","l","t","i","l","o","g","i","n"," ","X"," ","A","p","p"," ">>,
      <<"M","u","l","t","i","l","o","g","i","n"," ","A","p","p"," ">>,
      <<"M","u","l","t","i","l","o","g","i","n"," ">>,
      <<"w","h","o","e","r">>,
      <<"M","i","m","i","c"," ","G","B","7">>,
      <<"U","S","1","2">>,
      <<"z","9">>,
      <<" ","-"," ">>,
      <<"_">> }

RECURSIVE TitlesOf(_)
TitlesOf(n) ==
    IF n = 0 THEN {<<>>}
    ELSE LET shorter == TitlesOf(n - 1)
         IN  shorter \cup {t \o f : t \in shorter, f \in Fragments}

ProbeTitles == TitlesOf(MaxFrags)

ProbeClasses ==
    { <<"C","h","r","o","m","e","_","W","i","d","g","e","t","W","i","n","_","1">>,
      <<"C","h","r","o","m","e","_","W","i","d","g","e","t">>,
      <<"N","o","t","e","p","a","d">> }

InitClassify ==
    /\ \E visible \in BOOLEAN, title \in ProbeTitles, cls \in ProbeClasses :
           wins = [hwnd \in {1} |-> Window(visible, title, cls, "ok", 1, 0, 0)]
    /\ zorder = <<1>>
    /\ Constructed

\* a direct call of is_profile_window(hwnd)
CallIsProfileWindow ==
    /\ Idle
    /\ verdict = <<>>
    /\ \E hwnd \in DOMAIN wins : verdict' = <<hwnd, is_profile_window(hwnd)>>
    /\ UNCHANGED <<wins, zorder, settings, inv, events, ret, monitor, listing,
                   app, flaky, waiting>>

\* a direct call of get_profile_windows(); the first two are recorded
CallGetProfileWindows ==
    /\ Idle
    /\ Len(listing) < 2
    /\ listing' = Append(listing, [order |-> zorder, windows |-> get_profile_windows])
    /\ UNCHANGED <<wins, zorder, settings, inv, events, ret, monitor, verdict,
                   app, flaky, waiting>>

NextClassify == CallIsProfileWindow \/ CallGetProfileWindows

SpecClassify == InitClassify /\ [][NextClassify]_vars

-----------------------------------------------------------------------------
(* Ordering of the profile set: several windows, any enumeration order *)

T_whoer == <<"w","h","o","e","r">>
T_notepad == <<"z","9">>
C_chrome ==
    <<"C","h","r","o","m","e","_","W","i","d","g","e","t","W","i","n","_","1">>

\* Where a window of the initial desktop stands: a cascade from (100, 200)
StartX(hwnd) == 100 * hwnd
StartY(hwnd) == 200 * hwnd

\* What the process of a window may answer: its creation time, or a failure
\* of OpenProcess or of GetProcessTimes
ProcessStates ==
    {<<"ok", t>> : t \in 1..MaxTime} \cup {<<"no_open", 1>>, <<"no_times", 1>>}

InitEnum ==
    /\ \E kind \in [1..MaxWindows -> {T_whoer, T_notepad} \X ProcessStates] :
           wins = [hwnd \in 1..MaxWindows |->
                       Window(TRUE, kind[hwnd][1], C_chrome,
                              kind[hwnd][2][1], kind[hwnd][2][2],
                              StartX(hwnd), StartY(hwnd))]
    /\ zorder = [i \in 1..MaxWindows |-> i]
    /\ Constructed

\* Some process (the user, another program) brings a window to the top of the
\* Z order, the order EnumWindows reports, between two get_profile_windows calls
RaiseWindow ==
    /\ Idle
    /\ Len(listing) = 1
    /\ \E i \in 2..Len(zorder) :
           zorder' = <<zorder[i]>> \o SubSeq(zorder, 1, i - 1)
                                   \o SubSeq(zorder, i + 1, Len(zorder))
    /\ UNCHANGED <<wins, settings, inv, events, ret, monitor, verdict, listing,
                   app, flaky, waiting>>

NextEnum == CallGetProfileWindows \/ RaiseWindow

SpecEnum == InitEnum /\ [][NextEnum]_vars

-----------------------------------------------------------------------------
(* Python integer arithmetic *)

Max(a, b) == IF a >= b THEN a ELSE b
Min(a, b) == IF a <= b THEN a ELSE b
Abs(a) == IF a >= 0 THEN a ELSE -a

\* a // b for b # 0: the floor of the quotient, whatever the signs
FloorDiv(a, b) == IF b > 0 THEN a \div b ELSE (-a) \div (-b)

\* a % b for b # 0: the remainder has the sign of the divisor
Mod(a, b) == a - b * FloorDiv(a, b)

-----------------------------------------------------------------------------
(* The OS calls that act on a window, and the log of what was issued *)

Ev(call, hwnd, text, args) ==
    [call |-> call, hwnd |-> hwnd, text |-> text, args |-> args]

EvShowWindow(hwnd) == Ev("ShowWindow", hwnd, "", <<SW_RESTORE>>)
EvSetWindowPos(hwnd, x, y, cx, cy) == Ev("SetWindowPos", hwnd, "", <<x, y, cx, cy>>)
EvSetForegroundWindow(hwnd) == Ev("SetForegroundWindow", hwnd, "", <<>>)
EvKey(hotkey) == Ev("press_and_release", 0, hotkey, <<>>)
EvWrite(url) == Ev("write", 0, "", url)
EvSleep(ms) == Ev("sleep", 0, "", <<ms>>)
\* the print of an except clause: print(f"Error ... {title}: {e}")
EvPrint(hwnd) == Ev("print", hwnd, "", <<>>)

\* Whether a call raises: a call of `flaky` may (ctypes.ArgumentError from
\* SetWindowPos for an argument that does not fit a C long, an exception of
\* the keyboard library), any other call does not
Outcomes(call) == IF call \in flaky THEN {FALSE, TRUE} ELSE {FALSE}

\* an except clause caught an exception at window i of the running method
Caught(call) == [call EXCEPT !.failed = @ \cup {<<call.op, call.i>>}]

\* ShowWindow(hwnd, SW_RESTORE): a minimized window gets its rectangle back
ShowWindow(w, hwnd) ==
    IF hwnd \in DOMAIN w /\ w[hwnd].alive
    THEN [w EXCEPT ![hwnd].iconic = FALSE] ELSE w

\* SetWindowPos(hwnd, None, x, y, cx, cy, SWP_NOZORDER): fails on a stale handle
SetWindowPos(w, hwnd, x, y, cx, cy) ==
    IF hwnd \in DOMAIN w /\ w[hwnd].alive
    THEN [w EXCEPT ![hwnd].x = x, ![hwnd].y = y, ![hwnd].w = cx, ![hwnd].h = cy]
    ELSE w

\* SetForegroundWindow(hwnd): the window goes to the top of the Z order
SetForegroundWindow(order, hwnd) ==
    IF \E i \in DOMAIN order : order[i] = hwnd
    THEN <<hwnd>> \o SelectSeq(order, LAMBDA h : h # hwnd)
    ELSE order

\* GetWindowRect(hwnd, &rect): <<left, top, right, bottom>>; the zeroed RECT is
\* left as it is when the call fails
GetWindowRect(hwnd) ==
    IF IsWindow(hwnd)
    THEN <<wins[hwnd].x, wins[hwnd].y,
           wins[hwnd].x + wins[hwnd].w, wins[hwnd].y + wins[hwnd].h>>
    ELSE <<0, 0, 0, 0>>

get_work_area ==
    <<Min(monitor.rect_w, monitor.screen_w), Min(monitor.rect_h, monitor.screen_h)>>

-----------------------------------------------------------------------------
(* WindowPositioner.position_windows *)

\* A new invocation: its number, its ProfileSet
Invoke(op, windows) ==
    [NoInvocation EXCEPT !.op = op, !.run = inv.run + 1, !.windows = windows]

\* lines 193-214, entered as invocation `call` with self.settings = s: the
\* ProfileSet, the early return, the settings read and the automatic grid;
\* win_w + h_gap = 0 (or win_h + v_gap = 0) with an automatic dimension
\* divides by zero and the exception leaves the method
PositionBody(call, s) ==
    LET windows == get_profile_windows
        work == get_work_area
        h_gap == s.h_gap
        v_gap == s.v_gap
        cols == s.grid_cols
        rows == s.grid_rows
        win_w == s.window_width
        win_h == s.window_height
        position == [call EXCEPT !.op = "position", !.windows = windows]
    IN  IF windows = <<>>
        THEN [position EXCEPT !.pc = "done"]
        ELSE IF \/ cols = 0 /\ win_w + h_gap = 0
                \/ rows = 0 /\ win_h + v_gap = 0
        THEN [position EXCEPT !.pc = "raised"]
        ELSE [position EXCEPT
                 !.pc = "grow",
                 !.h_gap = h_gap, !.v_gap = v_gap,
                 !.win_w = win_w, !.win_h = win_h,
                 !.cols = IF cols = 0
                          THEN Max(1, FloorDiv(work[1], win_w + h_gap))
                          ELSE cols,
                 !.rows = IF rows = 0
                          THEN Max(1, FloorDiv(work[2], win_h + v_gap))
                          ELSE rows]

\* what the caller has once the first lines of a method have run: the 0 of
\* an early return, the exception, or nothing yet
Entered(call) ==
    IF call.pc = "done" THEN Return(0)
    ELSE IF call.pc = "raised" THEN Raise
    ELSE NoReturn

StartPosition ==
    /\ Idle /\ NotYetCalled
    /\ events' = events
    /\ inv' = PositionBody(Invoke("position", <<>>), settings)
    /\ ret' = Entered(inv')
    /\ UNCHANGED <<wins, zorder, settings, monitor, verdict, listing, app, flaky,
                   waiting>>

\* Mutation of GrowCols: a configured column count is kept and the rows grow
GrowCols_FixedKept ==
    /\ inv.op = "position" /\ inv.pc = "grow"
    /\ inv.cols * inv.rows < Len(inv.windows)
    /\ inv.cols < MaxCols
    /\ inv' = IF settings.grid_cols # 0
              THEN [inv EXCEPT !.rows = inv.rows + 1]
              ELSE [inv EXCEPT !.cols = inv.cols + 1]
    /\ UNCHANGED <<wins, zorder, settings, events, ret, monitor, verdict,
                   listing, app, flaky, waiting>>

\* lines 217-218: one turn of `while cols * rows < num_windows: cols += 1`
GrowCols ==
    /\ inv.op = "position" /\ inv.pc = "grow"
    /\ inv.cols * inv.rows < Len(inv.windows)
    /\ inv.cols < MaxCols
    /\ inv' = [inv EXCEPT !.cols = inv.cols + 1]
    /\ UNCHANGED <<wins, zorder, settings, events, ret, monitor, verdict,
                   listing, app, flaky, waiting>>

\* the loop condition is false: on to the first window
EndGrow ==
    /\ inv.op = "position" /\ inv.pc = "grow"
    /\ inv.cols * inv.rows >= Len(inv.windows)
    /\ inv' = [inv EXCEPT !.pc = "show", !.i = 1]
    /\ UNCHANGED <<wins, zorder, settings, events, ret, monitor, verdict,
                   listing, app, flaky, waiting>>

\* Mutation of CellX: the gap is left out of the column pitch
CellX_NoGap(i, cols, win_w, h_gap) == Mod(i, cols) * win_w

\* lines 223-226: the cell of window i (0-based)
CellX(i, cols, win_w, h_gap) == Mod(i, cols) * (win_w + h_gap)
CellY(i, cols, win_h, v_gap) == FloorDiv(i, cols) * (win_h + v_gap)

\* Mutation of PositionShow: the sleep comes before ShowWindow
PositionShow_SleepFirst ==
    /\ inv.op = "position" /\ inv.pc = "show"
    /\ LET hwnd == inv.windows[inv.i][1]
       IN  /\ wins' = ShowWindow(wins, hwnd)
           /\ events' = events \o <<EvSleep(30), EvShowWindow(hwnd)>>
    /\ inv' = [inv EXCEPT !.pc = "set"]
    /\ UNCHANGED <<zorder, settings, ret, monitor, verdict, listing, app, flaky, waiting>>

\* lines 228-229: ShowWindow, then the 0.03 s sleep
PositionShow ==
    /\ inv.op = "position" /\ inv.pc = "show"
    /\ LET hwnd == inv.windows[inv.i][1]
       IN  /\ wins' = ShowWindow(wins, hwnd)
           /\ events' = events \o <<EvShowWindow(hwnd), EvSleep(30)>>
    /\ inv' = [inv EXCEPT !.pc = "set"]
    /\ UNCHANGED <<zorder, settings, ret, monitor, verdict, listing, app, flaky, waiting>>

\* line 231, and line 233 after the last window; the loop has no try: an
\* exception of SetWindowPos leaves the method
PositionSet ==
    /\ inv.op = "position" /\ inv.pc = "set"
    /\ \E raised \in Outcomes("SetWindowPos") :
           LET hwnd == inv.windows[inv.i][1]
               x == CellX(inv.i - 1, inv.cols, inv.win_w, inv.h_gap)
               y == CellY(inv.i - 1, inv.cols, inv.win_h, inv.v_gap)
           IN  IF raised
               THEN /\ wins' = wins
                    /\ events' = events
                    /\ inv' = [inv EXCEPT !.pc = "raised"]
                    /\ ret' = Raise
               ELSE /\ wins' = SetWindowPos(wins, hwnd, x, y, inv.win_w, inv.win_h)
                    /\ events' = Append(events,
                           EvSetWindowPos(hwnd, x, y, inv.win_w, inv.win_h))
                    /\ IF inv.i < Len(inv.windows)
                       THEN /\ inv' = [inv EXCEPT !.pc = "show", !.i = inv.i + 1]
                            /\ ret' = ret
                       ELSE /\ inv' = [inv EXCEPT !.pc = "done"]
                            /\ ret' = Return(Len(inv.windows))
    /\ UNCHANGED <<zorder, settings, monitor, verdict, listing, app, flaky, waiting>>

-----------------------------------------------------------------------------
(* WindowPositioner.apply_zoom_to_all *)

\* lines 242-252, in the order the dict literal inserts its keys
zoom_steps ==
    << <<100, 0>>, <<90, 1>>, <<80, 2>>, <<75, 3>>, <<67, 4>>,
       <<50, 5>>, <<33, 6>>, <<25, 7>>, <<35, 6>> >>

\* min(keys, key=...) with the bare difference as key, not its absolute value
ClosestZoom_NoAbs(zoom_percent) ==
    LET d(i) == zoom_steps[i][1] - zoom_percent
        first == CHOOSE i \in DOMAIN zoom_steps :
                     /\ \A j \in DOMAIN zoom_steps : d(i) <= d(j)
                     /\ \A j \in 1..(i - 1) : d(j) > d(i)
    IN  zoom_steps[first][1]

\* line 255: min(zoom_steps.keys(), key=lambda x: abs(x - zoom_percent));
\* min returns the first of the keys with the least value
ClosestZoom(zoom_percent) ==
    LET d(i) == Abs(zoom_steps[i][1] - zoom_percent)
        first == CHOOSE i \in DOMAIN zoom_steps :
                     /\ \A j \in DOMAIN zoom_steps : d(i) <= d(j)
                     /\ \A j \in 1..(i - 1) : d(j) > d(i)
    IN  zoom_steps[first][1]

\* line 256: zoom_steps[closest]
ZoomStepsFor(zoom_percent) ==
    LET closest == ClosestZoom(zoom_percent)
    IN  zoom_steps[CHOOSE i \in DOMAIN zoom_steps : zoom_steps[i][1] = closest][2]

\* lines 237-256, entered from a caller's invocation `call`
ZoomBody(call, zoom_percent) ==
    LET windows == get_profile_windows
        zoom == [call EXCEPT !.op = "zoom", !.windows = windows,
                             !.zoom_percent = zoom_percent]
    IN  IF windows = <<>>
        THEN [zoom EXCEPT !.pc = "done"]
        ELSE [zoom EXCEPT !.pc = "front", !.i = 1, !.k = 0,
                          !.steps = ZoomStepsFor(zoom_percent)]

\* the method the caller entered: apply_zoom_to_all can run inside
\* open_url_in_all (line 347)
CalledMethodOf(call) == IF call.via = "open_url" THEN "open_url" ELSE call.op

\* what the method that was called returns when apply_zoom_to_all has
\* returned n: n itself, or len(windows) of open_url_in_all (line 349)
ZoomReturn(call, n) == IF call.via = "open_url" THEN call.outer ELSE n

StartZoom(zoom_percent) ==
    /\ Idle /\ NotYetCalled
    /\ events' = events
    /\ inv' = ZoomBody(Invoke("zoom", <<>>), zoom_percent)
    /\ ret' = Entered(inv')
    /\ UNCHANGED <<wins, zorder, settings, monitor, verdict, listing, app, flaky,
                   waiting>>

\* the next window of the zoom loop, or line 277
ZoomAdvance(call) ==
    IF call.i < Len(call.windows)
    THEN [call EXCEPT !.pc = "front", !.i = call.i + 1, !.k = 0]
    ELSE [call EXCEPT !.pc = "done"]

ZoomReturns(call) ==
    IF call.pc = "done" THEN Return(ZoomReturn(call, Len(call.windows))) ELSE ret

\* lines 261-263
ZoomFront ==
    /\ inv.op = "zoom" /\ inv.pc = "front"
    /\ LET hwnd == inv.windows[inv.i][1]
       IN  /\ wins' = ShowWindow(wins, hwnd)
           /\ zorder' = SetForegroundWindow(zorder, hwnd)
           /\ events' = events \o <<EvShowWindow(hwnd), EvSetForegroundWindow(hwnd),
                                    EvSleep(150)>>
    /\ inv' = [inv EXCEPT !.pc = "reset"]
    /\ UNCHANGED <<settings, ret, monitor, verdict, listing, app, flaky, waiting>>

\* lines 266-267; lines 274-275 when press_and_release raises
ZoomReset ==
    /\ inv.op = "zoom" /\ inv.pc = "reset"
    /\ \E raised \in Outcomes("press_and_release") :
           IF raised
           THEN /\ events' = Append(events, EvPrint(inv.windows[inv.i][1]))
                /\ inv' = ZoomAdvance(Caught(inv))
           ELSE /\ events' = events \o <<EvKey("ctrl+0"), EvSleep(80)>>
                /\ inv' = IF inv.steps > 0 THEN [inv EXCEPT !.pc = "out", !.k = 0]
                          ELSE ZoomAdvance(inv)
    /\ ret' = ZoomReturns(inv')
    /\ UNCHANGED <<wins, zorder, settings, monitor, verdict, listing, app, flaky,
                   waiting>>

\* Mutation of ZoomOut: the loop runs range(steps + 1)
ZoomOut_OneMore ==
    /\ inv.op = "zoom" /\ inv.pc = "out"
    /\ \E raised \in Outcomes("press_and_release") :
           IF raised
           THEN /\ events' = Append(events, EvPrint(inv.windows[inv.i][1]))
                /\ inv' = ZoomAdvance(Caught(inv))
           ELSE /\ events' = events \o <<EvKey("ctrl+-"), EvSleep(80)>>
                /\ inv' = IF inv.k + 1 < inv.steps + 1
                          THEN [inv EXCEPT !.k = inv.k + 1]
                          ELSE ZoomAdvance(inv)
    /\ ret' = ZoomReturns(inv')
    /\ UNCHANGED <<wins, zorder, settings, monitor, verdict, listing, app, flaky,
                   waiting>>

\* lines 270-272: one turn of `for _ in range(steps)`; lines 274-275 when
\* press_and_release raises
ZoomOut ==
    /\ inv.op = "zoom" /\ inv.pc = "out"
    /\ \E raised \in Outcomes("press_and_release") :
           IF raised
           THEN /\ events' = Append(events, EvPrint(inv.windows[inv.i][1]))
                /\ inv' = ZoomAdvance(Caught(inv))
           ELSE /\ events' = events \o <<EvKey("ctrl+-"), EvSleep(80)>>
                /\ inv' = IF inv.k + 1 < inv.steps THEN [inv EXCEPT !.k = inv.k + 1]
                          ELSE ZoomAdvance(inv)
    /\ ret' = ZoomReturns(inv')
    /\ UNCHANGED <<wins, zorder, settings, monitor, verdict, listing, app, flaky,
                   waiting>>

-----------------------------------------------------------------------------
(* WindowPositioner.resize_all_windows *)

\* lines 281-283, entered as invocation `call`
ResizeBody(call, width, height) ==
    LET windows == get_profile_windows
        resize == [call EXCEPT !.op = "resize", !.windows = windows]
    IN  IF windows = <<>>
        THEN [resize EXCEPT !.pc = "done"]
        ELSE [resize EXCEPT !.pc = "show", !.i = 1,
                            !.width = width, !.height = height]

StartResize(width, height) ==
    /\ Idle /\ NotYetCalled
    /\ events' = events
    /\ inv' = ResizeBody(Invoke("resize", <<>>), width, height)
    /\ ret' = Entered(inv')
    /\ UNCHANGED <<wins, zorder, settings, monitor, verdict, listing, app, flaky,
                   waiting>>

\* lines 293-294
ResizeShow ==
    /\ inv.op = "resize" /\ inv.pc = "show"
    /\ LET hwnd == inv.windows[inv.i][1]
       IN  /\ wins' = ShowWindow(wins, hwnd)
           /\ events' = events \o <<EvShowWindow(hwnd), EvSleep(50)>>
    /\ inv' = [inv EXCEPT !.pc = "set"]
    /\ UNCHANGED <<zorder, settings, ret, monitor, verdict, listing, app, flaky, waiting>>

\* x and y are taken from rect.top and rect.left, the wrong way round
ResizeTarget_Swapped(hwnd) ==
    LET rect == GetWindowRect(hwnd)
    IN  <<rect[2], rect[1]>>

\* lines 296-299: x = rect.left, y = rect.top
ResizeTarget(hwnd) ==
    LET rect == GetWindowRect(hwnd)
    IN  <<rect[1], rect[2]>>

\* the next window of the resize loop, or line 305
ResizeAdvance(call) ==
    IF call.i < Len(call.windows)
    THEN [call EXCEPT !.pc = "show", !.i = call.i + 1]
    ELSE [call EXCEPT !.pc = "done"]

\* lines 296-301, lines 302-303 when SetWindowPos raises, and line 305 after
\* the last window
ResizeSet ==
    /\ inv.op = "resize" /\ inv.pc = "set"
    /\ \E raised \in Outcomes("SetWindowPos") :
           LET hwnd == inv.windows[inv.i][1]
               at == ResizeTarget(hwnd)
           IN  IF raised
               THEN /\ wins' = wins
                    /\ events' = Append(events, EvPrint(hwnd))
                    /\ inv' = ResizeAdvance(Caught(inv))
               ELSE /\ wins' = SetWindowPos(wins, hwnd, at[1], at[2],
                                            inv.width, inv.height)
                    /\ events' = Append(events,
                           EvSetWindowPos(hwnd, at[1], at[2], inv.width, inv.height))
                    /\ inv' = ResizeAdvance(inv)
    /\ ret' = IF inv'.pc = "done" THEN Return(Len(inv.windows)) ELSE ret
    /\ UNCHANGED <<zorder, settings, monitor, verdict, listing, app, flaky, waiting>>

-----------------------------------------------------------------------------
(* WindowPositioner.open_url_in_all *)

IsSpace(c) == c \in {" ", "\t", "\n", "\r"}

\* str.strip()
RECURSIVE lstrip(_)
lstrip(s) == IF s # <<>> /\ IsSpace(s[1]) THEN lstrip(Tail(s)) ELSE s
RECURSIVE rstrip(_)
rstrip(s) ==
    IF s # <<>> /\ IsSpace(s[Len(s)]) THEN rstrip(SubSeq(s, 1, Len(s) - 1)) ELSE s
strip(s) == rstrip(lstrip(s))

S_http == <<"h","t","t","p",":","/","/">>
S_https == <<"h","t","t","p","s",":","/","/">>

\* lines 316-319
TypedUrl(url) ==
    LET stripped == strip(url)
    IN  IF ~startswith(stripped, S_http) /\ ~startswith(stripped, S_https)
        THEN S_https \o stripped
        ELSE stripped

\* lines 309-319, entered as invocation `call`
OpenUrlBody(call, url, apply_zoom_after, zoom_percent) ==
    LET windows == get_profile_windows
        open_url == [call EXCEPT !.op = "open_url", !.windows = windows,
                                 !.url_arg = url,
                                 !.apply_zoom_after = apply_zoom_after,
                                 !.zoom_percent = zoom_percent]
    IN  IF windows = <<>> \/ url = <<>> \/ strip(url) = <<>>
        THEN [open_url EXCEPT !.pc = "done"]
        ELSE [open_url EXCEPT !.pc = "front", !.i = 1, !.url = TypedUrl(url)]

StartOpenUrl(url, apply_zoom_after, zoom_percent) ==
    /\ Idle /\ NotYetCalled
    /\ events' = events
    /\ inv' = OpenUrlBody(Invoke("open_url", <<>>), url, apply_zoom_after,
                          zoom_percent)
    /\ ret' = Entered(inv')
    /\ UNCHANGED <<wins, zorder, settings, monitor, verdict, listing, app, flaky,
                   waiting>>

\* lines 325-327
NavFront ==
    /\ inv.op = "open_url" /\ inv.pc = "front"
    /\ LET hwnd == inv.windows[inv.i][1]
       IN  /\ wins' = ShowWindow(wins, hwnd)
           /\ zorder' = SetForegroundWindow(zorder, hwnd)
           /\ events' = events \o <<EvShowWindow(hwnd), EvSetForegroundWindow(hwnd),
                                    EvSleep(150)>>
    /\ inv' = [inv EXCEPT !.pc = "tab"]
    /\ UNCHANGED <<settings, ret, monitor, verdict, listing, app, flaky, waiting>>

\* Mutation of NavAdvance: the second pass runs whatever apply_zoom_after is
NavAdvance_ZoomAlways(call) ==
    IF call.i < Len(call.windows)
    THEN [call EXCEPT !.pc = "front", !.i = call.i + 1]
    ELSE [call EXCEPT !.pc = "settle"]

\* the next window of the first pass; after the last one lines 345-349
NavAdvance(call) ==
    IF call.i < Len(call.windows)
    THEN [call EXCEPT !.pc = "front", !.i = call.i + 1]
    ELSE IF call.apply_zoom_after
    THEN [call EXCEPT !.pc = "settle"]
    ELSE [call EXCEPT !.pc = "done"]

NavReturns(call) ==
    IF call.pc = "done" THEN Return(Len(call.windows)) ELSE ret

\* lines 330-331; lines 341-342 when press_and_release raises
NavTab ==
    /\ inv.op = "open_url" /\ inv.pc = "tab"
    /\ \E raised \in Outcomes("press_and_release") :
           IF raised
           THEN /\ events' = Append(events, EvPrint(inv.windows[inv.i][1]))
                /\ inv' = NavAdvance(Caught(inv))
           ELSE /\ events' = events \o <<EvKey("ctrl+t"), EvSleep(300)>>
                /\ inv' = [inv EXCEPT !.pc = "type"]
    /\ ret' = NavReturns(inv')
    /\ UNCHANGED <<wins, zorder, settings, monitor, verdict, listing, app, flaky,
                   waiting>>

\* lines 334-335; lines 341-342 when write raises
NavType ==
    /\ inv.op = "open_url" /\ inv.pc = "type"
    /\ \E raised \in Outcomes("write") :
           IF raised
           THEN /\ events' = Append(events, EvPrint(inv.windows[inv.i][1]))
                /\ inv' = NavAdvance(Caught(inv))
           ELSE /\ events' = events \o <<EvWrite(inv.url), EvSleep(150)>>
                /\ inv' = [inv EXCEPT !.pc = "enter"]
    /\ ret' = NavReturns(inv')
    /\ UNCHANGED <<wins, zorder, settings, monitor, verdict, listing, app, flaky,
                   waiting>>

\* lines 338-339; lines 341-342 when press_and_release raises
NavEnter ==
    /\ inv.op = "open_url" /\ inv.pc = "enter"
    /\ \E raised \in Outcomes("press_and_release") :
           IF raised
           THEN /\ events' = Append(events, EvPrint(inv.windows[inv.i][1]))
                /\ inv' = NavAdvance(Caught(inv))
           ELSE /\ events' = events \o <<EvKey("enter"), EvSleep(200)>>
                /\ inv' = NavAdvance(inv)
    /\ ret' = NavReturns(inv')
    /\ UNCHANGED <<wins, zorder, settings, monitor, verdict, listing, app, flaky,
                   waiting>>

\* lines 346-347: the 2 s sleep, then apply_zoom_to_all with a fresh
\* ProfileSet; its return value is dropped
NavSettle ==
    /\ inv.op = "open_url" /\ inv.pc = "settle"
    /\ events' = Append(events, EvSleep(2000))
    /\ inv' = ZoomBody([inv EXCEPT !.via = "open_url", !.outer = Len(inv.windows)],
                       inv.zoom_percent)
    /\ ret' = ZoomReturns(inv')
    /\ UNCHANGED <<wins, zorder, settings, monitor, verdict, listing, app, flaky,
                   waiting>>

-----------------------------------------------------------------------------
(* Grid layout: position_windows over layout settings drawn from small sets *)

GridCols == {0, 1, 2, 3, -1}
GridRows == {0, 1, 2, -1}
HGaps == {10, 0, -10, -550}
VGaps == {10, 0}
Widths == {550, 700}
Heights == {600}

InitGrid ==
    /\ \E n \in 1..GridWindows :
           /\ wins = [hwnd \in 1..n |->
                          Window(TRUE, T_whoer, C_chrome, "ok", hwnd,
                                 StartX(hwnd), StartY(hwnd))]
           /\ zorder = [i \in 1..n |-> i]
    /\ NothingCalled
    /\ Standalone
    /\ monitor = DefaultMonitor
    /\ \E c \in GridCols, r \in GridRows, hg \in HGaps, vg \in VGaps,
          ww \in Widths, wh \in Heights :
           settings = [DEFAULT_SETTINGS EXCEPT
                           !.grid_cols = c, !.grid_rows = r,
                           !.h_gap = hg, !.v_gap = vg,
                           !.window_width = ww, !.window_height = wh]

NextGrid == StartPosition \/ GrowCols \/ EndGrow \/ PositionShow \/ PositionSet

SpecGrid == InitGrid /\ [][NextGrid]_vars

-----------------------------------------------------------------------------
(* The four batched actions over a desktop that other processes change *)

U_plain == <<"a",".","i","o">>
U_padded == <<" ","h","t","t","p",":","/","/","a",".","i","o"," ">>
U_blank == <<" "," ">>

ZoomRequests == {35, 100}
ResizeRequests == {<<800, 900>>}
UrlRequests == {U_plain, U_padded, U_blank, <<>>}
UrlZoomRequests == {75}

\* where the user drops a window that is dragged: <<x, y>>
DragTo == <<300, 40>>

InitDesktop ==
    /\ \E kind \in [1..BatchWindows -> {T_whoer, T_notepad} \X BOOLEAN] :
           wins = [hwnd \in 1..BatchWindows |->
                       [Window(TRUE, kind[hwnd][1], C_chrome, "ok",
                               BatchWindows + 1 - hwnd, StartX(hwnd), StartY(hwnd))
                        EXCEPT !.iconic = kind[hwnd][2]]]
    /\ zorder = [i \in 1..BatchWindows |-> i]
    /\ settings = DEFAULT_SETTINGS
    /\ monitor \in {DefaultMonitor, SmallMonitor}
    /\ NothingCalled
    /\ Standalone

\* a window is closed by its owner: the handle goes stale
CloseWindow ==
    /\ \E hwnd \in DOMAIN wins :
           /\ wins[hwnd].alive
           /\ wins' = [wins EXCEPT ![hwnd].alive = FALSE]
           /\ zorder' = SelectSeq(zorder, LAMBDA h : h # hwnd)
    /\ UNCHANGED <<settings, inv, events, ret, monitor, verdict, listing, app, flaky,
                   waiting>>

\* the user drags a window somewhere else
DragWindow ==
    /\ \E hwnd \in DOMAIN wins :
           /\ wins[hwnd].alive /\ ~wins[hwnd].iconic
           /\ <<wins[hwnd].x, wins[hwnd].y>> # DragTo
           /\ wins' = [wins EXCEPT ![hwnd].x = DragTo[1], ![hwnd].y = DragTo[2]]
    /\ UNCHANGED <<zorder, settings, inv, events, ret, monitor, verdict,
                   listing, app, flaky, waiting>>

Next ==
    \/ StartPosition \/ GrowCols \/ EndGrow \/ PositionShow \/ PositionSet
    \/ \E p \in ZoomRequests : StartZoom(p)
    \/ ZoomFront \/ ZoomReset \/ ZoomOut
    \/ \E size \in ResizeRequests : StartResize(size[1], size[2])
    \/ ResizeShow \/ ResizeSet
    \/ \E url \in UrlRequests, apply_zoom_after \in BOOLEAN, p \in UrlZoomRequests :
           StartOpenUrl(url, apply_zoom_after, p)
    \/ NavFront \/ NavTab \/ NavType \/ NavEnter \/ NavSettle
    \/ CloseWindow \/ DragWindow

Spec == InitDesktop /\ [][Next]_vars

-----------------------------------------------------------------------------
(* The zoom table over every percentage *)

InitZoom ==
    /\ wins = [hwnd \in {1} |->
                   Window(TRUE, T_whoer, C_chrome, "ok", 1, StartX(1), StartY(1))]
    /\ zorder = <<1>>
    /\ Constructed

NextZoom ==
    \/ \E p \in 0..MaxZoomPercent : StartZoom(p)
    \/ ZoomFront \/ ZoomReset \/ ZoomOut

SpecZoom == InitZoom /\ [][NextZoom]_vars

-----------------------------------------------------------------------------
(* The four batched actions on a desktop where calls can raise *)

\* which calls can raise: none; SetWindowPos (ctypes.ArgumentError); the
\* calls of the keyboard library
FlakyCalls == { {}, {"SetWindowPos"}, {"press_and_release", "write"} }

FaultZoomRequests == {80, 100}

\* the default grid, and a 1 x 1 grid that the batch outgrows
FaultSettings ==
    { DEFAULT_SETTINGS,
      [DEFAULT_SETTINGS EXCEPT !.grid_cols = 1, !.grid_rows = 1] }

InitFault ==
    /\ wins = [hwnd \in 1..BatchWindows |->
                   Window(TRUE, T_whoer, C_chrome, "ok", hwnd,
                          StartX(hwnd), StartY(hwnd))]
    /\ zorder = [i \in 1..BatchWindows |-> i]
    /\ settings \in FaultSettings
    /\ monitor = DefaultMonitor
    /\ NothingCalled
    /\ app = NoApp
    /\ flaky \in FlakyCalls

NextFault ==
    \/ StartPosition \/ GrowCols \/ EndGrow \/ PositionShow \/ PositionSet
    \/ \E p \in FaultZoomRequests : StartZoom(p)
    \/ ZoomFront \/ ZoomReset \/ ZoomOut
    \/ \E size \in ResizeRequests : StartResize(size[1], size[2])
    \/ ResizeShow \/ ResizeSet
    \/ \E apply_zoom_after \in BOOLEAN, p \in FaultZoomRequests :
           StartOpenUrl(U_plain, apply_zoom_after, p)
    \/ NavFront \/ NavTab \/ NavType \/ NavEnter \/ NavSettle

SpecFault == InitFault /\ [][NextFault]_vars

-----------------------------------------------------------------------------
(* open_url_in_all over URLs with and without a scheme *)

U_https == S_https \o U_plain
U_ftp == <<"f","t","p",":","/","/">> \o U_plain
U_upper == <<"H","T","T","P",":","/","/">> \o U_plain

SchemeRequests == UrlRequests \cup {U_https, U_ftp, U_upper}

NextUrl ==
    \/ \E url \in SchemeRequests : StartOpenUrl(url, FALSE, 100)
    \/ NavFront \/ NavTab \/ NavType \/ NavEnter

SpecUrl == InitDesktop /\ [][NextUrl]_vars

-----------------------------------------------------------------------------
(* The App: the control panel, the hotkey and the tray menu *)

DigitString == <<"0","1","2","3","4","5","6","7","8","9">>

DigitValue(c) == (CHOOSE i \in DOMAIN DigitString : DigitString[i] = c) - 1

\* the text int() converts once the blanks around it and the sign are taken
\* off: digits, single underscores between them
IsDigitGroup(body) ==
    /\ body # <<>>
    /\ \A i \in DOMAIN body : IsDigit(body[i]) \/ body[i] = "_"
    /\ body[1] # "_" /\ body[Len(body)] # "_"
    /\ \A i \in 1..(Len(body) - 1) : ~(body[i] = "_" /\ body[i + 1] = "_")

RECURSIVE DecimalValue(_)
DecimalValue(body) ==
    IF body = <<>> THEN 0
    ELSE LET front == SubSeq(body, 1, Len(body) - 1)
             last == body[Len(body)]
         IN  IF last = "_" THEN DecimalValue(front)
             ELSE 10 * DecimalValue(front) + DigitValue(last)

\* int(text): ok is FALSE where Python raises ValueError
int(text) ==
    LET t == strip(text)
        signed == t # <<>> /\ t[1] \in {"+", "-"}
        body == IF signed THEN Tail(t) ELSE t
    IN  IF ~IsDigitGroup(body) THEN [ok |-> FALSE, value |-> 0]
        ELSE [ok |-> TRUE,
              value |-> IF signed /\ t[1] = "-" THEN -DecimalValue(body)
                        ELSE DecimalValue(body)]

\* str(n) for the numbers the panel shows at start
str(n) ==
    IF n < 10 THEN <<DigitString[n + 1]>>
    ELSE IF n < 100 THEN <<DigitString[(n \div 10) + 1], DigitString[(n % 10) + 1]>>
    ELSE <<DigitString[(n \div 100) + 1], DigitString[((n \div 10) % 10) + 1],
           DigitString[(n % 10) + 1]>>

\* lines 565-576: the assignments run in order up to the first int() that
\* raises; the bare except returns False and keeps what was assigned so far.
\* self.settings is the dict the WindowPositioner holds (line 365).
apply_settings(s, a) ==
    LET cols == int(a.cols_var)
        rows == int(a.rows_var)
        hgap == int(a.hgap_var)
        vgap == int(a.vgap_var)
        s1 == [s EXCEPT !.grid_cols = cols.value]
        s2 == [s1 EXCEPT !.grid_rows = rows.value]
        s3 == [s2 EXCEPT !.h_gap = hgap.value]
        s4 == [s3 EXCEPT !.v_gap = vgap.value]
        s5 == [s4 EXCEPT !.zoom_level = a.zoom_var]
    IN  IF ~cols.ok THEN [ok |-> FALSE, settings |-> s, file |-> a.settings_file]
        ELSE IF ~rows.ok THEN [ok |-> FALSE, settings |-> s1, file |-> a.settings_file]
        ELSE IF ~hgap.ok THEN [ok |-> FALSE, settings |-> s2, file |-> a.settings_file]
        ELSE IF ~vgap.ok THEN [ok |-> FALSE, settings |-> s3, file |-> a.settings_file]
        ELSE [ok |-> TRUE, settings |-> s5, file |-> s5]

\* lines 363-369 and 372-470: the App right after __init__, no settings file
\* on disk, the tray icon not yet made
NewApp ==
    [built |-> TRUE,
     cols_var |-> str(DEFAULT_SETTINGS.grid_cols),
     rows_var |-> str(DEFAULT_SETTINGS.grid_rows),
     hgap_var |-> str(DEFAULT_SETTINGS.h_gap),
     vgap_var |-> str(DEFAULT_SETTINGS.v_gap),
     width_var |-> str(DEFAULT_SETTINGS.window_width),
     height_var |-> str(DEFAULT_SETTINGS.window_height),
     zoom_var |-> DEFAULT_SETTINGS.zoom_level,
     url_var |-> <<>>, auto_zoom_var |-> TRUE,
     status_var |-> "Hotkey: CTRL+SHIFT+P", tray_icon |-> FALSE, after |-> <<>>,
     settings_file |-> DEFAULT_SETTINGS]

\* a method entered from the App: the thread that runs it, what triggered it
AppInvoke(thread, trigger) ==
    [Invoke("none", <<>>) EXCEPT !.thread = thread, !.trigger = trigger]

\* lines 578-582: App.position_windows up to the first sleep of
\* WindowPositioner.position_windows, which it calls on its own thread
AppPositionWindows(thread, trigger, a) ==
    LET applied == apply_settings(settings, a)
    IN  /\ settings' = applied.settings
        /\ app' = [a EXCEPT !.status_var = "Positioning...",
                            !.settings_file = applied.file]
        /\ events' = events
        /\ inv' = PositionBody(AppInvoke(thread, trigger), applied.settings)
        /\ ret' = Entered(inv')
        /\ UNCHANGED <<wins, zorder, monitor, verdict, listing, flaky, waiting>>

\* the POSITION WINDOWS button (line 412): the handler runs on the UI thread
ClickPosition ==
    /\ Idle /\ NotYetCalled
    /\ app.after = <<>>
    /\ AppPositionWindows("ui", "panel", app)

\* lines 562-563, on the thread of the keyboard hook
hotkey_triggered ==
    /\ Idle /\ NotYetCalled
    /\ app.after = <<>>
    /\ app' = [app EXCEPT !.after = Append(@, "position_windows")]
    /\ UNCHANGED <<wins, zorder, settings, inv, events, ret, monitor, verdict,
                   listing, flaky, waiting>>

\* the Tk event loop runs the callback root.after(0, ...) queued
RunAfter ==
    /\ app.after # <<>>
    /\ IF Head(app.after) = "position_windows"
       THEN /\ Idle /\ NotYetCalled
            /\ AppPositionWindows("ui", "hotkey", [app EXCEPT !.after = Tail(@)])
       ELSE /\ app' = [app EXCEPT !.after = Tail(@), !.status_var = Head(app.after)]
            /\ UNCHANGED <<wins, zorder, settings, inv, events, ret, monitor,
                           verdict, listing, flaky, waiting>>

\* lines 583-586: the status line once positioner.position_windows() returned
PositionReturned ==
    /\ inv.op = "position" /\ inv.pc = "done" /\ inv.trigger # "call"
    /\ inv' = [inv EXCEPT !.pc = "reported"]
    /\ app' = [app EXCEPT !.status_var =
                   IF ret.value = 0 THEN "No windows found" ELSE "Done! positioned"]
    /\ UNCHANGED <<wins, zorder, settings, events, ret, monitor, verdict,
                   listing, flaky, waiting>>

-----------------------------------------------------------------------------
(* The App: the handlers that start a thread, and the tray menu *)

\* threading.Thread(target=..., daemon=True).start(): the method and its
\* arguments wait for the new thread to run
Spawn(op, width, height, url, apply_zoom_after, zoom_percent) ==
    [AppInvoke("worker", "panel") EXCEPT
        !.op = op, !.pc = "spawned", !.width = width, !.height = height,
        !.url = url, !.apply_zoom_after = apply_zoom_after,
        !.zoom_percent = zoom_percent]

\* lines 496-507; the result of apply_settings is not looked at
apply_zoom_all ==
    /\ Idle /\ NotYetCalled
    /\ app.after = <<>>
    /\ LET applied == apply_settings(settings, app)
       IN  /\ settings' = applied.settings
           /\ app' = [app EXCEPT !.status_var = "Applying zoom...",
                                 !.settings_file = applied.file]
    /\ events' = events
    /\ inv' = Spawn("zoom", 0, 0, <<>>, FALSE, app.zoom_var)
    /\ UNCHANGED <<wins, zorder, ret, monitor, verdict, listing, flaky, waiting>>

\* lines 509-529
resize_all ==
    /\ Idle /\ NotYetCalled
    /\ app.after = <<>>
    /\ LET width == int(app.width_var)
           height == int(app.height_var)
       IN  IF ~width.ok \/ ~height.ok
           THEN /\ app' = [app EXCEPT !.status_var = "Invalid size values"]
                /\ UNCHANGED <<settings, inv, events>>
           ELSE LET saved == [settings EXCEPT !.window_width = width.value,
                                              !.window_height = height.value]
                IN  /\ settings' = saved
                    /\ app' = [app EXCEPT !.status_var = "Resizing...",
                                          !.settings_file = saved]
                    /\ events' = events
                    /\ inv' = Spawn("resize", width.value, height.value, <<>>,
                                    FALSE, 0)
    /\ UNCHANGED <<wins, zorder, ret, monitor, verdict, listing, flaky, waiting>>

\* lines 531-554
open_url_all ==
    /\ Idle /\ NotYetCalled
    /\ app.after = <<>>
    /\ LET url == strip(app.url_var)
       IN  IF url = <<>>
           THEN /\ app' = [app EXCEPT !.status_var = "Please enter a URL"]
                /\ UNCHANGED <<inv, events>>
           ELSE /\ app' = [app EXCEPT !.status_var =
                               IF app.auto_zoom_var
                               THEN "Opening URL + applying zoom..."
                               ELSE "Opening URL in all profiles..."]
                /\ events' = events
                /\ inv' = Spawn("open_url", 0, 0, url, app.auto_zoom_var,
                                app.zoom_var)
    /\ UNCHANGED <<wins, zorder, settings, ret, monitor, verdict, listing, flaky,
                   waiting>>

\* the new thread enters the method: lines 503, 524, 547
ThreadRuns ==
    /\ inv.pc = "spawned"
    /\ inv' = IF inv.op = "zoom" THEN ZoomBody(inv, inv.zoom_percent)
              ELSE IF inv.op = "resize" THEN ResizeBody(inv, inv.width, inv.height)
              ELSE OpenUrlBody(inv, inv.url, inv.apply_zoom_after, inv.zoom_percent)
    /\ ret' = Entered(inv')
    /\ UNCHANGED <<wins, zorder, settings, events, monitor, verdict, listing,
                   app, flaky, waiting>>

\* lines 504, 525, 548-551: the thread hands the status text to the UI thread
ThreadEnds ==
    /\ inv.thread = "worker" /\ inv.pc = "done"
    /\ inv' = [inv EXCEPT !.pc = "reported"]
    /\ app' = [app EXCEPT !.after = Append(@,
                   IF CalledMethodOf(inv) = "zoom" THEN "Done! Zoom applied"
                   ELSE IF CalledMethodOf(inv) = "resize" THEN "Done! resized"
                   ELSE IF inv.apply_zoom_after THEN "Done! URL opened + zoom applied"
                   ELSE "Done! URL opened")]
    /\ UNCHANGED <<wins, zorder, settings, events, ret, monitor, verdict,
                   listing, flaky, waiting>>

\* lines 588-601
minimize_to_tray ==
    /\ app.built /\ ~app.tray_icon
    /\ app' = [app EXCEPT !.tray_icon = TRUE]
    /\ UNCHANGED <<wins, zorder, settings, inv, events, ret, monitor, verdict,
                   listing, flaky, waiting>>

\* lines 603-604, on the thread of the tray icon
tray_position ==
    /\ Idle /\ NotYetCalled
    /\ app.tray_icon /\ app.after = <<>>
    /\ AppPositionWindows("tray", "tray", app)

\* a method called by a tray menu item, on the thread of the tray icon
TrayCalls(call) ==
    /\ Idle /\ NotYetCalled
    /\ app.tray_icon /\ app.after = <<>>
    /\ events' = events
    /\ inv' = call
    /\ ret' = Entered(call)
    /\ UNCHANGED <<wins, zorder, settings, monitor, verdict, listing, app, flaky,
                   waiting>>

\* lines 606-609
tray_resize ==
    TrayCalls(ResizeBody(AppInvoke("tray", "tray"),
                         settings.window_width, settings.window_height))

\* lines 611-613
tray_zoom == TrayCalls(ZoomBody(AppInvoke("tray", "tray"), settings.zoom_level))

\* lines 615-618: open_url_in_all(url) with its defaults, apply_zoom_after=False
\* and zoom_percent=50
tray_open_url ==
    /\ strip(app.url_var) # <<>>
    /\ TrayCalls(OpenUrlBody(AppInvoke("tray", "tray"), strip(app.url_var),
                             FALSE, 50))

-----------------------------------------------------------------------------
(* The App over a desktop of managed windows, the panel filled in by the user *)

T_0 == <<"0">>
T_2_padded == <<" ","2"," ">>
T_abc == <<"a","b","c">>
T_minus1 == <<"-","1">>
T_10 == <<"1","0">>
T_1_5 == <<"1",".","5">>
T_550 == <<"5","5","0">>
T_8oo == <<"8","o","o">>
T_600 == <<"6","0","0">>

ColsTexts == {T_0, T_2_padded, T_abc}
RowsTexts == {T_0, T_minus1, <<>>}
HGapTexts == {T_10, T_1_5}
VGapTexts == {T_10}
WidthTexts == {T_550, T_8oo}
HeightTexts == {T_600}
UrlTexts == {U_padded, U_blank}
PanelZooms == {75}

InitApp ==
    /\ wins = [hwnd \in 1..BatchWindows |->
                   Window(TRUE, T_whoer, C_chrome, "ok", hwnd,
                          StartX(hwnd), StartY(hwnd))]
    /\ zorder = [i \in 1..BatchWindows |-> i]
    /\ settings = DEFAULT_SETTINGS
    /\ monitor = DefaultMonitor
    /\ NothingCalled
    /\ flaky = {}
    /\ \E c \in ColsTexts, r \in RowsTexts, hg \in HGapTexts, vg \in VGapTexts,
          w \in WidthTexts, h \in HeightTexts, u \in UrlTexts, z \in PanelZooms,
          az \in BOOLEAN :
           app = [NewApp EXCEPT !.cols_var = c, !.rows_var = r, !.hgap_var = hg,
                                !.vgap_var = vg, !.width_var = w, !.height_var = h,
                                !.url_var = u, !.zoom_var = z, !.auto_zoom_var = az]

NextApp ==
    \/ ClickPosition \/ hotkey_triggered \/ RunAfter \/ PositionReturned
    \/ apply_zoom_all \/ resize_all \/ open_url_all \/ ThreadRuns \/ ThreadEnds
    \/ minimize_to_tray
    \/ tray_position \/ tray_resize \/ tray_zoom \/ tray_open_url
    \/ GrowCols \/ EndGrow \/ PositionShow \/ PositionSet
    \/ ZoomFront \/ ZoomReset \/ ZoomOut
    \/ ResizeShow \/ ResizeSet
    \/ NavFront \/ NavTab \/ NavType \/ NavEnter \/ NavSettle

SpecApp == InitApp /\ [][NextApp]_vars

-----------------------------------------------------------------------------
(* Two threads at once: the tray thread, and the UI thread with the thread
   a panel button starts.  `inv` and `ret` belong to the thread that has the
   processor, `waiting` to the other one. *)

MaxSwitches == 3      \* thread switches followed in one behaviour

\* the interpreter gives the processor to the other thread
EvSwitch == Ev("switch", 0, "", <<>>)

Switches == Len(SelectSeq(events, LAMBDA e : e.call = "switch"))

\* a thread switch: at a time.sleep, or between two bytecodes (nothing in
\* the program holds a lock)
Switch ==
    /\ Switches < MaxSwitches
    /\ inv' = waiting.inv
    /\ ret' = waiting.ret
    /\ waiting' = [inv |-> inv, ret |-> ret]
    /\ events' = Append(events, EvSwitch)
    /\ UNCHANGED <<wins, zorder, settings, monitor, verdict, listing, app, flaky>>

\* the tray icon runs its menu callbacks one after the other on its thread
TrayFree == waiting.inv.thread # "tray"

\* the order in which position_windows reads self.settings: lines 198-199,
\* 203-204, 207-208
ReadOrder ==
    <<"h_gap", "v_gap", "grid_cols", "grid_rows", "window_width", "window_height">>

\* the settings as position_windows saw them: reads[j] is the dict at the
\* moment of the j-th read, of which it took the key ReadOrder[j]
ValuesRead(reads) ==
    [key \in DOMAIN DEFAULT_SETTINGS |->
        IF \E j \in DOMAIN ReadOrder : ReadOrder[j] = key
        THEN reads[CHOOSE j \in DOMAIN ReadOrder : ReadOrder[j] = key][key]
        ELSE reads[Len(reads)][key]]

\* lines 603-604, 578-581 and 193-195: the tray item 'Position Windows' up
\* to the first settings read of WindowPositioner.position_windows
TrayPositionEnters ==
    /\ Idle /\ NotYetCalled
    /\ app.tray_icon /\ app.after = <<>> /\ TrayFree
    /\ LET applied == apply_settings(settings, app)
           call == [AppInvoke("tray", "tray") EXCEPT
                       !.op = "position", !.windows = get_profile_windows]
       IN  /\ settings' = applied.settings
           /\ app' = [app EXCEPT !.status_var = "Positioning...",
                                 !.settings_file = applied.file]
           /\ inv' = IF call.windows = <<>> THEN [call EXCEPT !.pc = "done"]
                     ELSE [call EXCEPT !.pc = "read"]
    /\ ret' = Entered(inv')
    /\ UNCHANGED <<wins, zorder, events, monitor, verdict, listing, flaky, waiting>>

\* one read of self.settings in lines 198-208; after the last one lines
\* 211-214 compute the automatic grid from the values read
ReadSetting ==
    /\ inv.op = "position" /\ inv.pc = "read"
    /\ LET reads == Append(inv.reads, settings)
       IN  inv' = IF Len(reads) < Len(ReadOrder) THEN [inv EXCEPT !.reads = reads]
                  ELSE PositionBody([inv EXCEPT !.reads = reads], ValuesRead(reads))
    /\ ret' = Entered(inv')
    /\ UNCHANGED <<wins, zorder, settings, events, monitor, verdict, listing,
                   app, flaky, waiting>>

\* lines 611-613, while no other tray callback runs
TrayZoom == TrayFree /\ tray_zoom

T_1 == <<"1">>
T_800 == <<"8","0","0">>
T_900 == <<"9","0","0">>

\* the grid typed into the panel, columns and rows alike: automatic, or one
\* cell that the batch outgrows
ThreadGrids == {T_0, T_1}

\* the zoom level saved by an earlier session and shown in the panel
SavedZoom == 90

InitThreads ==
    /\ wins = [hwnd \in 1..BatchWindows |->
                   Window(TRUE, T_whoer, C_chrome, "ok", hwnd,
                          StartX(hwnd), StartY(hwnd))]
    /\ zorder = [i \in 1..BatchWindows |-> i]
    /\ monitor = DefaultMonitor
    /\ NothingCalled
    /\ flaky = {}
    /\ settings = [DEFAULT_SETTINGS EXCEPT !.zoom_level = SavedZoom]
    /\ \E g \in ThreadGrids :
           app = [NewApp EXCEPT !.zoom_var = SavedZoom, !.settings_file = settings,
                            !.cols_var = g, !.rows_var = g,
                            !.width_var = T_800, !.height_var = T_900,
                            !.url_var = U_plain, !.auto_zoom_var = FALSE]

NextThreads ==
    \/ minimize_to_tray \/ Switch
    \/ TrayPositionEnters \/ ReadSetting
    \/ GrowCols \/ EndGrow \/ PositionShow \/ PositionSet \/ PositionReturned
    \/ TrayZoom \/ ZoomFront \/ ZoomReset \/ ZoomOut
    \/ resize_all \/ apply_zoom_all \/ open_url_all
    \/ ThreadRuns \/ ThreadEnds \/ RunAfter
    \/ ResizeShow \/ ResizeSet
    \/ NavFront \/ NavTab \/ NavType \/ NavEnter

SpecThreads == InitThreads /\ [][NextThreads]_vars

-----------------------------------------------------------------------------
(* Claims about is_profile_window, checked under SpecClassify *)

\* what a claim says of a title, computed on the window the call was made on
HasExclusion(title) ==
    \E k \in DOMAIN EXCLUDE_INDICATORS : Contains(EXCLUDE_INDICATORS[k], lower(title))
HasKeyword(title) ==
    \E k \in DOMAIN PROFILE_INDICATORS : Contains(PROFILE_INDICATORS[k], lower(title))
HasChromeClass(cls) == Contains(chrome_widgetwin, lower(cls))

Called == verdict # <<>>
CalledOn == wins[verdict[1]]
Returned == verdict[2]

\* C1: a window whose lower-cased title contains an exclusion string is
\* rejected, also when the title holds an inclusion keyword or matches the
\* pattern with a chrome_widgetwin class.
C1_ExclusionRejects ==
    Called /\ HasExclusion(CalledOn.title) => Returned = FALSE

C1_Witness ==
    /\ Called /\ CalledOn.visible
    /\ HasExclusion(CalledOn.title)
    /\ HasKeyword(CalledOn.title)
    /\ SearchProfilePattern(CalledOn.title) /\ HasChromeClass(CalledOn.cls)
    /\ Returned = FALSE

\* C2 as stated: for a title matching the pattern the result is True exactly
\* when the class contains chrome_widgetwin.
C2_PatternIffClass ==
    Called /\ SearchProfilePattern(CalledOn.title)
        => (Returned <=> HasChromeClass(CalledOn.cls))

\* C2 amended: for a visible window whose title matches the pattern and holds
\* neither an exclusion string nor an inclusion keyword, the result is True
\* exactly when the class contains chrome_widgetwin (case-insensitively).
C2_PatternIffClassAmended ==
    /\ Called /\ CalledOn.visible
    /\ SearchProfilePattern(CalledOn.title)
    /\ ~HasExclusion(CalledOn.title) /\ ~HasKeyword(CalledOn.title)
    => (Returned <=> HasChromeClass(CalledOn.cls))

C2_Witness ==
    /\ Called /\ CalledOn.visible
    /\ SearchProfilePattern(CalledOn.title)
    /\ ~HasExclusion(CalledOn.title) /\ ~HasKeyword(CalledOn.title)
    /\ HasChromeClass(CalledOn.cls) /\ ~Contains(chrome_widgetwin, CalledOn.cls)
    /\ Returned = TRUE

\* C3 as stated: a title with an inclusion keyword and no exclusion string is
\* accepted, for every window.
C3_KeywordAccepts ==
    Called /\ HasKeyword(CalledOn.title) /\ ~HasExclusion(CalledOn.title)
        => Returned = TRUE

\* C3 amended: a visible window whose title holds an inclusion keyword and no
\* exclusion string is accepted, whatever its class name.
C3_KeywordAcceptsAmended ==
    /\ Called /\ CalledOn.visible
    /\ HasKeyword(CalledOn.title) /\ ~HasExclusion(CalledOn.title)
    => Returned = TRUE

C3_Witness ==
    /\ Called /\ CalledOn.visible
    /\ HasKeyword(CalledOn.title) /\ ~HasExclusion(CalledOn.title)
    /\ ~HasChromeClass(CalledOn.cls)
    /\ ~SearchProfilePattern(CalledOn.title)
    /\ Returned = TRUE

\* C4: a window with an empty title is rejected whatever its visibility and
\* class, and no entry of a list returned by get_profile_windows has an empty
\* title.
C4_EmptyTitleRejected ==
    /\ Called /\ CalledOn.title = <<>> => Returned = FALSE
    /\ \A c \in DOMAIN listing : \A i \in DOMAIN listing[c].windows :
           /\ listing[c].windows[i][2] # <<>>
           /\ wins[listing[c].windows[i][1]].title # <<>>

C4_Witness ==
    /\ Called /\ CalledOn.title = <<>> /\ CalledOn.visible
    /\ HasChromeClass(CalledOn.cls)
    /\ Returned = FALSE
    /\ listing # <<>> /\ listing[1].windows = <<>>

-----------------------------------------------------------------------------
(* Claims about get_profile_windows, checked under SpecEnum *)

Readable(hwnd) == wins[hwnd].proc = "ok"
Hwnds(windows) == {windows[i][1] : i \in DOMAIN windows}
PositionIn(order, hwnd) == CHOOSE i \in DOMAIN order : order[i] = hwnd

\* C6: the returned list holds exactly the accepted windows; the windows whose
\* process cannot be opened or queried come first, before every window with
\* a readable creation time; the readable ones follow in ascending creation
\* time, those of equal time in enumeration order (nothing removed, nothing
\* reordered by the unreadable ones).
C6_SortedUnreadableFirst ==
    \A c \in DOMAIN listing :
        LET l == listing[c].windows
            order == listing[c].order
        IN  /\ Hwnds(l) = {hwnd \in Range(order) : is_profile_window(hwnd)}
            /\ Cardinality(Hwnds(l)) = Len(l)
            /\ \A i, j \in DOMAIN l :
                   /\ ~Readable(l[i][1]) /\ Readable(l[j][1]) => i < j
                   /\ Readable(l[i][1]) /\ Readable(l[j][1])
                          /\ wins[l[i][1]].ctime < wins[l[j][1]].ctime => i < j
                   /\ Readable(l[i][1]) /\ Readable(l[j][1])
                          /\ wins[l[i][1]].ctime = wins[l[j][1]].ctime
                          /\ PositionIn(order, l[i][1]) < PositionIn(order, l[j][1])
                          => i < j

\* an unreadable window enumerated last, between two readable ones in no way:
\* it is returned first and the readable ones keep ascending order
C6_Witness ==
    /\ listing # <<>>
    /\ LET l == listing[1].windows
           order == listing[1].order
       IN  /\ Len(l) = 3
           /\ ~Readable(order[3]) /\ wins[order[3]].proc = "no_open"
           /\ l[1][1] = order[3]
           /\ Readable(l[2][1]) /\ Readable(l[3][1])
           /\ wins[l[2][1]].ctime < wins[l[3][1]].ctime
           /\ PositionIn(order, l[3][1]) < PositionIn(order, l[2][1])

\* C7: with the windows and processes unchanged (only the enumeration order
\* changes), two consecutive get_profile_windows calls return the windows in
\* the same order.
C7_SameOrderTwice ==
    \A c \in DOMAIN listing :
        c + 1 \in DOMAIN listing => listing[c].windows = listing[c + 1].windows

-----------------------------------------------------------------------------
(* Claims about position_windows, checked under SpecGrid *)

\* the SetWindowPos calls of the log, in order
SetWindowPosCalls == SelectSeq(events, LAMBDA e : e.call = "SetWindowPos")

\* two rectangles <<x, y, cx, cy>> share a point of their interiors
Overlap(a, b) ==
    /\ a[1] < b[1] + b[3] /\ b[1] < a[1] + a[3]
    /\ a[2] < b[2] + b[4] /\ b[2] < a[2] + a[4]

PositionEnded ==
    inv.op = "position" /\ inv.pc \in {"done", "raised"} /\ inv.windows # <<>>

\* C5: for a non-empty window set and any layout configuration, a finished
\* position_windows has issued exactly one rectangle per window, each of the
\* configured window_width x window_height, no two of them overlapping, and
\* the final columns x rows is at least the number of windows.
C5_OneCellPerWindowNoOverlap ==
    PositionEnded =>
        LET calls == SetWindowPosCalls
        IN  /\ inv.pc = "done"
            /\ Len(calls) = Len(inv.windows)
            /\ \A i \in DOMAIN calls :
                   /\ calls[i].hwnd = inv.windows[i][1]
                   /\ calls[i].args[3] = settings.window_width
                   /\ calls[i].args[4] = settings.window_height
            /\ \A i, j \in DOMAIN calls :
                   i # j => ~Overlap(calls[i].args, calls[j].args)
            /\ inv.cols * inv.rows >= Len(inv.windows)

-----------------------------------------------------------------------------
(* Claims about apply_zoom_to_all, checked under SpecZoom *)

KeyCount(hotkey) ==
    Len(SelectSeq(events, LAMBDA e : e.call = "press_and_release" /\ e.text = hotkey))

\* C8: the step count of a zoom request is that of a table entry nearest to
\* the requested percentage by absolute difference; 35 gives 6 steps, 60 gives
\* the 4 steps of entry 67; a finished batch has sent that many 'ctrl+-' to
\* each window.
C8_NearestZoomEntry ==
    inv.op = "zoom" /\ inv.windows # <<>> =>
        /\ \E i \in DOMAIN zoom_steps :
               /\ \A j \in DOMAIN zoom_steps :
                      Abs(zoom_steps[i][1] - inv.zoom_percent)
                          <= Abs(zoom_steps[j][1] - inv.zoom_percent)
               /\ inv.steps = zoom_steps[i][2]
        /\ inv.zoom_percent = 35 => inv.steps = 6
        /\ inv.zoom_percent = 60 => inv.steps = 4
        /\ inv.pc = "done" => KeyCount("ctrl+-") = inv.steps * Len(inv.windows)

C8_Witness ==
    /\ inv.op = "zoom" /\ inv.pc = "done" /\ inv.zoom_percent = 60
    /\ inv.steps = 4 /\ KeyCount("ctrl+-") = 4 /\ KeyCount("ctrl+0") = 1

-----------------------------------------------------------------------------
(* Claims about the four actions, checked under Spec *)

\* a method is entered in this step
Starts == inv'.run = inv.run + 1

NoManagedWindow == \A i \in DOMAIN zorder : ~is_profile_window(zorder[i])

\* C9: an action started while no window of the desktop is classified as
\* managed returns 0 at once and has issued no OS call (no ShowWindow,
\* SetWindowPos, SetForegroundWindow, key event).
C9_EmptySetReturnsZero ==
    [][Starts /\ NoManagedWindow
           => inv'.pc = "done" /\ ret' = Return(0) /\ events' = <<>>]_vars

C9_Witness ==
    /\ inv.op = "open_url" /\ inv.pc = "done" /\ inv.apply_zoom_after
    /\ inv.windows = <<>>
    /\ \E hwnd \in DOMAIN wins : wins[hwnd].alive /\ wins[hwnd].visible
    /\ NoManagedWindow
    /\ ret = Return(0) /\ events = <<>>

\* the step of resize_all_windows that reads the rectangle and calls SetWindowPos
ResizeSets == inv.op = "resize" /\ inv.pc = "set" /\ events' # events

\* C10: resize_all_windows calls SetWindowPos with the x and y the window has
\* at that moment and the new width and height: the window keeps its top-left
\* corner and gets the new size, and no other window changes.
C10_ResizeKeepsTopLeft ==
    [][ResizeSets =>
           LET hwnd == inv.windows[inv.i][1]
               call == events'[Len(events')]
           IN  /\ call.call = "SetWindowPos" /\ call.hwnd = hwnd
               /\ call.args[3] = inv.width /\ call.args[4] = inv.height
               /\ wins[hwnd].alive =>
                      /\ call.args[1] = wins[hwnd].x /\ call.args[2] = wins[hwnd].y
                      /\ wins'[hwnd].x = wins[hwnd].x /\ wins'[hwnd].y = wins[hwnd].y
                      /\ wins'[hwnd].w = inv.width /\ wins'[hwnd].h = inv.height
               /\ \A other \in DOMAIN wins \ {hwnd} : wins'[other] = wins[other]]_vars

\* the window at (100, 200) resized to 800x900 ends at (100, 200)-(900, 1100)
C10_Witness ==
    /\ inv.op = "resize" /\ inv.pc = "done"
    /\ inv.width = 800 /\ inv.height = 900
    /\ \E i \in DOMAIN events : events[i] = EvSetWindowPos(1, 100, 200, 800, 900)
    /\ wins[1].alive /\ GetWindowRect(1) = <<100, 200, 900, 1100>>

-----------------------------------------------------------------------------
(* Claims about failures inside a batch, checked under SpecFault *)

\* the windows on which a batch has started its sub-sequence
Touched ==
    {events[j].hwnd : j \in {k \in DOMAIN events : events[k].call = "ShowWindow"}}

\* the batch has entered its loop over the windows
InLoop == inv.windows # <<>> /\ inv.i >= 1

\* C11: in each of the four actions an exception raised while a window is
\* processed is caught at that window: it never leaves the action, and every
\* later window of the set is still processed.
C11_FailureStaysAtItsWindow ==
    /\ ~(InLoop /\ inv.pc = "raised")
    /\ InLoop /\ inv.pc \in {"done", "raised"} =>
           \A i \in DOMAIN inv.windows : inv.windows[i][1] \in Touched

\* the method that was called, and the size of its ProfileSet
CalledMethod == CalledMethodOf(inv)
CalledCount == IF inv.via = "open_url" THEN inv.outer ELSE Len(inv.windows)

\* C12: the integer an action returns is the number of windows whose
\* sub-sequence completed: a window at which an exception was caught is not
\* counted.
C12_ReturnCountsSuccesses ==
    InLoop /\ inv.pc = "done" /\ ret.kind = "return" =>
        ret.value = CalledCount
                      - Cardinality({f \in inv.failed : f[1] = CalledMethod})

-----------------------------------------------------------------------------
(* Claims about the App, checked under SpecApp *)

\* every numeric field of the panel holds an integer
PanelNumeric ==
    /\ int(app.cols_var).ok /\ int(app.rows_var).ok
    /\ int(app.hgap_var).ok /\ int(app.vgap_var).ok
    /\ int(app.width_var).ok /\ int(app.height_var).ok

\* a call that touches a window: ShowWindow, SetWindowPos, SetForegroundWindow
\* or a key event
TouchesWindow(e) ==
    e.call \in {"ShowWindow", "SetWindowPos", "SetForegroundWindow",
                "press_and_release", "write"}

\* C13: when a numeric field of the panel (grid columns/rows, gaps, window
\* width/height) is not an integer, the action started from the panel issues
\* no ShowWindow, SetWindowPos, SetForegroundWindow or key event.
C13_InvalidFieldRejected ==
    inv.trigger = "panel" /\ ~PanelNumeric =>
        \A j \in DOMAIN events : ~TouchesWindow(events[j])

\* C16: each of the four batched actions, triggered by a panel button, the
\* hotkey or the tray menu, runs on a thread other than the one that runs the
\* Tk event loop.
C16_BatchOffUiThread ==
    inv.trigger # "call" /\ inv.op # "none" => inv.thread # "ui"

\* apply_settings has accepted what the panel holds (it returned True)
SettingsAccepted == apply_settings(settings, app).ok

\* C20: every Position batch runs to completion: for every integer setting
\* apply_settings accepts and every non-empty window set, the column loop ends
\* (some column count from the present one on gives enough cells) and the
\* action does not end by an exception.
C20_PositionRunsToCompletion ==
    inv.op = "position" /\ inv.windows # <<>> /\ SettingsAccepted =>
        /\ inv.pc # "raised"
        /\ inv.pc = "grow" =>
               \E c \in inv.cols..(Max(inv.cols, 0) + Len(inv.windows)) :
                   c * inv.rows >= Len(inv.windows)

-----------------------------------------------------------------------------
(* Claims about the order of events, checked under SpecFault *)

\* the calls of a log that reach a window: everything but sleeps and prints
CallsOf(log) == SelectSeq(log, LAMBDA e : e.call \notin {"sleep", "print"})

IsPrefixOf(a, b) == Len(a) <= Len(b) /\ a = SubSeq(b, 1, Len(a))

RECURSIVE Repeat(_, _)
Repeat(e, n) == IF n = 0 THEN <<>> ELSE <<e>> \o Repeat(e, n - 1)

\* where the settle sleep of open_url_in_all stands in the log, 0 if nowhere
SettleAt ==
    IF \E j \in DOMAIN events : events[j] = EvSleep(2000)
    THEN CHOOSE j \in DOMAIN events : events[j] = EvSleep(2000)
    ELSE 0

\* the log of the navigation pass, and of the zoom pass that follows it
NavLog == IF SettleAt = 0 THEN events ELSE SubSeq(events, 1, SettleAt - 1)
ZoomLog ==
    IF inv.via = "open_url" THEN SubSeq(events, SettleAt + 1, Len(events))
    ELSE events

\* what C14 says a zoom batch sends: per window, in set order, restore and
\* foreground, one 'ctrl+0', then `steps` times 'ctrl+-'
RECURSIVE ZoomCalls(_, _)
ZoomCalls(windows, steps) ==
    IF windows = <<>> THEN <<>>
    ELSE LET hwnd == windows[1][1]
         IN  <<EvShowWindow(hwnd), EvSetForegroundWindow(hwnd), EvKey("ctrl+0")>>
                 \o Repeat(EvKey("ctrl+-"), steps)
                 \o ZoomCalls(Tail(windows), steps)

\* the windows a log has restored, in the order of the ShowWindow calls
RestoredIn(log) ==
    LET shows == SelectSeq(log, LAMBDA e : e.call = "ShowWindow")
    IN  [j \in DOMAIN shows |-> shows[j].hwnd]

NoZoomFailure == \A f \in inv.failed : f[1] # "zoom"

\* C14: apply_zoom_to_all takes the windows in set order; while no step has
\* failed the calls sent are, window after window, restore and foreground,
\* exactly one 'ctrl+0', exactly `steps` 'ctrl+-', nothing of the next window
\* before the present one has ended, and a finished batch has sent every
\* window the same 1 + steps key events.
C14_ZoomSequencePerWindow ==
    inv.op = "zoom" =>
        /\ IsPrefixOf(RestoredIn(ZoomLog), [j \in DOMAIN inv.windows |-> inv.windows[j][1]])
        /\ NoZoomFailure =>
               /\ IsPrefixOf(CallsOf(ZoomLog), ZoomCalls(inv.windows, inv.steps))
               /\ inv.pc = "done" =>
                      CallsOf(ZoomLog) = ZoomCalls(inv.windows, inv.steps)

\* a batch of two steps over every window, on a keyboard that could have
\* failed and did not
C14_Witness ==
    /\ inv.op = "zoom" /\ inv.via = "none" /\ inv.pc = "done"
    /\ "press_and_release" \in flaky /\ inv.failed = {}
    /\ inv.steps = 2 /\ Len(inv.windows) = BatchWindows
    /\ KeyCount("ctrl+0") = BatchWindows /\ KeyCount("ctrl+-") = 2 * BatchWindows

IsZoomKey(e) == e.call = "press_and_release" /\ e.text \in {"ctrl+0", "ctrl+-"}
IsNavCall(e) ==
    \/ e.call = "write"
    \/ e.call = "press_and_release" /\ e.text \in {"ctrl+t", "enter"}

\* what C15 says the navigation pass sends: per window, in set order,
\* foreground, 'ctrl+t', the URL, 'enter'
RECURSIVE NavCalls(_, _)
NavCalls(windows, url) ==
    IF windows = <<>> THEN <<>>
    ELSE LET hwnd == windows[1][1]
         IN  <<EvShowWindow(hwnd), EvSetForegroundWindow(hwnd), EvKey("ctrl+t"),
               EvWrite(url), EvKey("enter")>>
                 \o NavCalls(Tail(windows), url)

\* the navigation sub-sequences that have ended: by 'enter' or by an exception
NavEnded(log) ==
    Len(SelectSeq(log, LAMBDA e : e.call = "print"
                                  \/ (e.call = "press_and_release" /\ e.text = "enter")))

\* C15: open_url_in_all sends each window foreground, 'ctrl+t', the typed URL
\* and 'enter' in that order; a zoom key ('ctrl+0', 'ctrl+-') is sent only
\* with apply_zoom_after=True and only after the navigation sub-sequence of
\* every window of the set has ended; with apply_zoom_after=False none is.
C15_NavigateThenZoom ==
    CalledMethod = "open_url" =>
        /\ inv.op = "open_url" /\ inv.failed = {} =>
               /\ IsPrefixOf(CallsOf(events), NavCalls(inv.windows, inv.url))
               /\ InLoop /\ inv.pc \in {"done", "settle"} =>
                      CallsOf(events) = NavCalls(inv.windows, inv.url)
        /\ \A j \in DOMAIN events : IsZoomKey(events[j]) =>
               /\ inv.apply_zoom_after
               /\ SettleAt # 0 /\ SettleAt < j
               /\ NavEnded(NavLog) = inv.outer
               /\ \A k \in DOMAIN events : IsNavCall(events[k]) => k < SettleAt

\* a navigation with apply_zoom_after over every window, then the zoom pass
C15_Witness ==
    /\ inv.via = "open_url" /\ inv.pc = "done" /\ inv.apply_zoom_after
    /\ inv.failed = {} /\ inv.outer = BatchWindows
    /\ KeyCount("enter") = BatchWindows /\ KeyCount("ctrl+t") = BatchWindows
    /\ KeyCount("ctrl+-") = 2 * BatchWindows
    /\ ret = Return(BatchWindows)

-----------------------------------------------------------------------------
(* Claims about the layout of position_windows, checked under SpecGrid *)

IsCall(j, call) == j \in DOMAIN events /\ events[j].call = call

\* C17 as stated: the delay of a window comes before its restore and its
\* move; the order is delay, restore, move, nothing between restore and move.
C17_DelayRestoreMove ==
    inv.op = "position" =>
        \A j \in DOMAIN events : IsCall(j, "SetWindowPos") =>
            /\ IsCall(j - 1, "ShowWindow") /\ events[j - 1].hwnd = events[j].hwnd
            /\ IsCall(j - 2, "sleep")

\* C17 amended: for every window the order is restore (ShowWindow), the fixed
\* delay, move (SetWindowPos); the delay stands between restore and move, and
\* the restore of a window follows the move of the one before at once.
C17_RestoreDelayMove ==
    inv.op = "position" =>
        /\ \A j \in DOMAIN events : IsCall(j, "SetWindowPos") =>
               /\ events[j - 1] = EvSleep(30)
               /\ IsCall(j - 2, "ShowWindow") /\ events[j - 2].hwnd = events[j].hwnd
        /\ \A j \in DOMAIN events : IsCall(j, "ShowWindow") =>
               j = 1 \/ IsCall(j - 1, "SetWindowPos")
        /\ \A j \in DOMAIN events : IsCall(j, "sleep") => IsCall(j - 1, "ShowWindow")

C17_Witness ==
    /\ inv.op = "position" /\ inv.pc = "done" /\ Len(inv.windows) = 2
    /\ Len(events) = 6
    /\ IsCall(1, "ShowWindow") /\ IsCall(2, "sleep") /\ IsCall(3, "SetWindowPos")
    /\ IsCall(4, "ShowWindow") /\ IsCall(5, "sleep") /\ IsCall(6, "SetWindowPos")
    /\ events[4].hwnd = inv.windows[2][1] /\ events[6].hwnd = inv.windows[2][1]

\* the grid is planned: the column loop has ended
PositionPlanned ==
    inv.op = "position" /\ inv.pc \in {"show", "set", "done"} /\ inv.windows # <<>>

Pitch == <<settings.window_width + settings.h_gap,
           settings.window_height + settings.v_gap>>

\* floor(a / d) for d # 0, as the one q with q * d <= a < (q + 1) * d (d > 0)
\* or q * d >= a > (q + 1) * d (d < 0)
FloorQuotient(a, d) ==
    CHOOSE q \in (-Abs(a) - 1)..(Abs(a) + 1) :
        IF d > 0 THEN q * d <= a /\ a < (q + 1) * d
        ELSE q * d >= a /\ a > (q + 1) * d

\* the columns and rows before the loop: the configured ones, 0 replaced
FirstCols ==
    IF settings.grid_cols = 0
    THEN Max(1, FloorQuotient(get_work_area[1], Pitch[1]))
    ELSE settings.grid_cols
FirstRows ==
    IF settings.grid_rows = 0
    THEN Max(1, FloorQuotient(get_work_area[2], Pitch[2]))
    ELSE settings.grid_rows

\* i = row * cols + col with col between 0 and cols
ColumnOf(i, cols) ==
    CHOOSE col \in (IF cols > 0 THEN 0..(cols - 1) ELSE (cols + 1)..0) :
        \E row \in (-i)..i : i = row * cols + col
RowOf(i, cols) == CHOOSE row \in (-i)..i : i = row * cols + ColumnOf(i, cols)

\* C18: columns 0 becomes max(1, work_w // (win_w + h_gap)), rows 0 becomes
\* max(1, work_h // (win_h + v_gap)), columns is incremented while
\* columns x rows < count, window i is placed at
\* ((i mod columns) x (win_w + h_gap), (i div columns) x (win_h + v_gap));
\* 5 windows, grid 0x0, 550x600, gaps 10x10, work area 1920x1040 get
\* (0,0), (560,0), (1120,0), (1680,0), (2240,0).
C18_GridAsSpecified ==
    PositionPlanned =>
        LET n == Len(inv.windows)
            calls == SetWindowPosCalls
        IN  /\ inv.rows = FirstRows
            /\ inv.cols >= FirstCols
            /\ inv.cols * inv.rows >= n
            /\ inv.cols > FirstCols => (inv.cols - 1) * inv.rows < n
            /\ \A k \in DOMAIN calls :
                   /\ calls[k].hwnd = inv.windows[k][1]
                   /\ calls[k].args =
                          <<ColumnOf(k - 1, inv.cols) * Pitch[1],
                            RowOf(k - 1, inv.cols) * Pitch[2],
                            settings.window_width, settings.window_height>>
            /\ settings = DEFAULT_SETTINGS /\ n = 5 /\ inv.pc = "done" =>
                   [k \in DOMAIN calls |-> calls[k].args] =
                       << <<0, 0, 550, 600>>, <<560, 0, 550, 600>>,
                          <<1120, 0, 550, 600>>, <<1680, 0, 550, 600>>,
                          <<2240, 0, 550, 600>> >>

C18_Witness ==
    /\ PositionPlanned /\ inv.pc = "done" /\ settings = DEFAULT_SETTINGS
    /\ get_work_area = <<1920, 1040>>
    /\ Len(inv.windows) = 5 /\ inv.cols = 5 /\ inv.rows = 1
    /\ Len(SetWindowPosCalls) = 5
    /\ SetWindowPosCalls[5].args = <<2240, 0, 550, 600>>
    /\ \A hwnd \in DOMAIN wins : wins[hwnd].x = 560 * (hwnd - 1) /\ wins[hwnd].y = 0

\* C19 as stated: only a dimension left at 0 grows: a non-zero configured
\* column count is the column count of the final grid.
C19_GrowsAutoDimensionOnly ==
    PositionPlanned =>
        /\ settings.grid_cols # 0 => inv.cols = settings.grid_cols
        /\ settings.grid_rows # 0 => inv.rows = settings.grid_rows
        /\ inv.cols * inv.rows >= Len(inv.windows)

\* C19 amended: the planner grows the column count only, configured or not:
\* a turn of the loop adds one column and leaves the rows alone, so the final
\* rows are the configured ones (or the automatic ones for 0) and a non-zero
\* configured column count is a lower bound of the final one.
C19_GrowsColumnsOnly ==
    [][inv.op = "position" /\ inv.pc = "grow" =>
           /\ inv'.rows = inv.rows /\ inv.rows = FirstRows
           /\ inv.cols >= FirstCols
           /\ \/ inv'.cols = inv.cols + 1 /\ inv.cols * inv.rows < Len(inv.windows)
              \/ inv'.cols = inv.cols /\ inv.cols * inv.rows >= Len(inv.windows)]_vars

\* two configured columns, rows left automatic, five windows: five columns
C19_Witness ==
    /\ PositionPlanned /\ inv.pc = "done"
    /\ settings.grid_cols = 2 /\ settings.grid_rows = 0
    /\ Len(inv.windows) = 5
    /\ inv.cols = 5 /\ inv.rows = 1

-----------------------------------------------------------------------------
(* Claims about the typed URL, checked under SpecUrl *)

IsSchemeChar(c) ==
    c \in Range(UpperLetters) \cup Range(LowerLetters) \cup Digits \cup {"+", "-", "."}

\* s begins with a scheme and '://': a letter, then letters, digits, '+',
\* '-', '.', in either case (RFC 3986, section 3.1)
HasScheme(s) ==
    \E n \in 1..(Len(s) - 3) :
        /\ s[1] \in Range(UpperLetters) \cup Range(LowerLetters)
        /\ \A i \in 1..n : IsSchemeChar(s[i])
        /\ SubSeq(s, n + 1, n + 3) = <<":", "/", "/">>

Written == SelectSeq(events, LAMBDA e : e.call = "write")

\* C23: open_url_in_all types a URL that starts with a scheme: the stripped
\* input unchanged when it already has a scheme, 'https://' before it exactly
\* when it has none; an empty or whitespace-only URL makes the action return
\* 0 without any foreground call or key event.
C23_TypedUrlHasOneScheme ==
    inv.op = "open_url" =>
        LET stripped == strip(inv.url_arg)
        IN  /\ \A k \in DOMAIN Written :
                   /\ HasScheme(Written[k].args)
                   /\ Written[k].args =
                          IF HasScheme(stripped) THEN stripped
                          ELSE S_https \o stripped
            /\ stripped = <<>> =>
                   /\ inv.pc = "done" /\ ret = Return(0)
                   /\ \A k \in DOMAIN events : ~TouchesWindow(events[k])

-----------------------------------------------------------------------------
(* Claims about two threads, checked under SpecThreads *)

\* the thread that issued events[k]: the threads take turns at each switch
Batch(k) == Len(SelectSeq(SubSeq(events, 1, k), LAMBDA e : e.call = "switch")) % 2

IsForeground(e) == e.call = "SetForegroundWindow"
IsKeyEvent(e) == e.call \in {"press_and_release", "write"}

\* events[j] is a foreground call and events[l] a key event of the same
\* window's sub-sequence: same batch, no foreground call of it in between
SameSubSequence(j, l) ==
    /\ j < l
    /\ IsForeground(events[j]) /\ IsKeyEvent(events[l])
    /\ Batch(l) = Batch(j)
    /\ \A m \in (j + 1)..l : IsForeground(events[m]) => Batch(m) # Batch(j)

\* C21: a running action is never interrupted mid-window: also when a second
\* action is started while one is in flight, no SetForegroundWindow call and
\* no key event of another batch is issued between the foreground call for a
\* window and the last key event of that window's sub-sequence.
C21_NoMidWindowInterruption ==
    \A j, l \in DOMAIN events :
        SameSubSequence(j, l) =>
            \A k \in (j + 1)..(l - 1) :
                Batch(k) # Batch(j) =>
                    ~(IsForeground(events[k]) \/ IsKeyEvent(events[k]))

\* C22: the layout values one Position action uses (h_gap, v_gap, grid_cols,
\* grid_rows, window_width, window_height) all come from a single state of
\* the settings: whatever apply_settings or resize_all does on another
\* thread, the six values read are the values of the settings at one of the
\* moments of reading.
C22_SettingsSnapshot ==
    \A call \in {inv, waiting.inv} :
        call.op = "position" /\ Len(call.reads) = Len(ReadOrder) =>
            \E j \in DOMAIN call.reads :
                \A key \in Range(ReadOrder) :
                    ValuesRead(call.reads)[key] = call.reads[j][key]

=============================================================================
